---- MODULE Spec2Model ----
(***************************************************************************)
(* A model of lima-hn: the storage queries (storage/queries.rs), the       *)
(* client's comment pipeline (api/client.rs), the comment tree             *)
(* (comment_tree.rs) and the controller (app.rs), with the story fetch     *)
(* and its cache (api/client.rs, storage/mod.rs), the storage worker       *)
(* thread (storage/db.rs) and the viewport prefetch (app.rs, main.rs).     *)
(*                                                                         *)
(* Option<T> is modelled as a set: None is {} and Some(x) is {x}.          *)
(* A table with a primary key is a function from the key to an optional    *)
(* row.                                                                    *)
(***************************************************************************)
EXTENDS Integers, Sequences, FiniteSets, TLC

VARIABLES
    db_stories,     \* stories table: id -> Option<row>
    db_comments,    \* comments table: id -> Option<row>
    now,            \* now_unix()
    last,           \* the storage command the worker ran last, with its reply
    db_feeds,       \* feeds and feed_stories tables: feed type -> Option<[ids, fetched_at]>
    cmd_queue,      \* the mpsc channel of StorageCommand: the commands sent, not yet received
    worker,         \* run_worker: the command in hand and where its query stands
    replies,        \* the oneshot channels: caller -> the replies sent to it
    sent,           \* the callers in the order their commands entered the channel
    worked,         \* the callers in the order the worker finished their commands
    upstream,       \* the thread as the API serves it: comment id -> item state
    fetch_story,       \* the Story whose comments are fetched
    pc,             \* where fetch_comments_flat stands
    to_fetch,       \* fetch_comments_firebase: the queue of the next wave
    fetch_items,       \* fetch_comments_firebase: HashMap<u64, HnItem>, as its entries
    fetch_attempted,     \* fetch_comments_firebase: HashSet<u64>
    fresh,          \* the comments the network path produced
    source,         \* where the comments of the call under way came from
    result,         \* what fetch_comments_flat returned: [ok, comments]
    tree_comments,  \* CommentTree.comments
    tree_expanded,  \* CommentTree.expanded
    view,           \* App.view
    feed,           \* App.feed
    stories,        \* App.stories
    selected_index, \* App.selected_index
    scroll_offset,  \* App.scroll_offset
    loading,        \* App.load.loading
    loading_more,   \* App.load.loading_more
    current_page,   \* App.load.current_page
    has_more,       \* App.load.has_more
    error,          \* App.load.error
    should_quit,    \* App.should_quit
    generation,     \* App.generation
    viewport_height,\* App.viewport_height
    tasks           \* the spawned fetches whose result has not been handled yet

worker_vars == <<db_feeds, cmd_queue, worker, replies, sent, worked>>

storage_vars == <<db_stories, db_comments, now, last, worker_vars>>

client_vars == <<upstream, fetch_story, pc, to_fetch, fetch_items, fetch_attempted, fresh, source, result>>

tree_vars == <<tree_comments, tree_expanded>>

app_vars == <<view, feed, stories, selected_index, scroll_offset, loading, loading_more,
              current_page, has_more, error, should_quit, generation, viewport_height,
              tasks>>

vars == <<db_stories, db_comments, now, last,
          db_feeds, cmd_queue, worker, replies, sent, worked,
          upstream, fetch_story, pc, to_fetch, fetch_items, fetch_attempted, fresh, source, result,
          tree_comments, tree_expanded,
          view, feed, stories, selected_index, scroll_offset, loading, loading_more,
          current_page, has_more, error, should_quit, generation, viewport_height,
          tasks>>

----------------------------------------------------------------------------
(* Bounds *)

NumStories == 2
NumComments == 3
MaxTime == 2
MaxBatch == 2

StoryIds == 1..NumStories
CommentIds == 1..NumComments
Times == 1..MaxTime

----------------------------------------------------------------------------
(* Option helpers *)

None == {}

Some(x) == {x}

Unwrap(o) == CHOOSE x \in o : TRUE

\* SQL COALESCE(a, b)
Coalesce(a, b) == IF a # None THEN a ELSE b

OptTimes == {None} \cup {Some(t) : t \in Times}

----------------------------------------------------------------------------
(* storage/types.rs: rows *)

\* StorableStory with content revision v
StorableStory(id, v, fetched_at, read_at, favorited_at) ==
    [id |-> id, title |-> v, url |-> IF v = 1 THEN None ELSE Some(v), score |-> v,
     by |-> v, time |-> v, descendants |-> v,
     kids |-> IF v = 1 THEN <<>> ELSE <<v>>,
     fetched_at |-> fetched_at, read_at |-> read_at, favorited_at |-> favorited_at]

\* StorableComment with content revision v
StorableComment(id, story_id, v, fetched_at, favorited_at) ==
    [id |-> id, story_id |-> story_id,
     parent_id |-> IF v = 1 THEN None ELSE Some(v),
     text |-> v, by |-> v, time |-> v, depth |-> v - 1,
     kids |-> IF v = 1 THEN <<>> ELSE <<v>>,
     fetched_at |-> fetched_at, favorited_at |-> favorited_at]

----------------------------------------------------------------------------
(* storage/queries.rs *)

\* a save_story that replaces the row (INSERT OR REPLACE)
SaveStoryRowReplace(old, story) == story

\* save_story: INSERT ... ON CONFLICT(id) DO UPDATE ... RETURNING the saved row
SaveStoryRow(old, story) ==
    IF old = None
    THEN story
    ELSE [story EXCEPT
            !.read_at = Coalesce(Unwrap(old).read_at, story.read_at),
            !.favorited_at = Coalesce(Unwrap(old).favorited_at, story.favorited_at)]

save_story(tbl, story) ==
    LET saved == SaveStoryRow(tbl[story.id], story)
    IN  [tbl |-> [tbl EXCEPT ![story.id] = Some(saved)], reply |-> saved]

\* get_story: SELECT ... WHERE id = ?1, for any id
get_story(tbl, id) == IF id \in DOMAIN tbl THEN tbl[id] ELSE None

\* a mark that stamps the row on every call
mark_story_read_last_wins(tbl, id, t) ==
    IF tbl[id] # None
    THEN [tbl EXCEPT ![id] = Some([Unwrap(tbl[id]) EXCEPT !.read_at = Some(t)])]
    ELSE tbl

\* mark_story_read: UPDATE ... SET read_at = now WHERE id = ? AND read_at IS NULL
mark_story_read(tbl, id, t) ==
    IF tbl[id] # None /\ Unwrap(tbl[id]).read_at = None
    THEN [tbl EXCEPT ![id] = Some([Unwrap(tbl[id]) EXCEPT !.read_at = Some(t)])]
    ELSE tbl

\* a toggle that stamps the row whatever it holds
toggle_favorite_always_sets(tbl, id, t) ==
    [tbl |-> IF tbl[id] = None THEN tbl
             ELSE [tbl EXCEPT ![id] = Some([Unwrap(tbl[id]) EXCEPT !.favorited_at = Some(t)])],
     reply |-> Some(t)]

\* toggle_story_favorite / toggle_comment_favorite: the same statement pair on
\* either table
toggle_favorite(tbl, id, t) ==
    LET existing == IF tbl[id] = None THEN None ELSE Unwrap(tbl[id]).favorited_at
    IN  IF existing # None
        THEN [tbl |-> [tbl EXCEPT ![id] = Some([Unwrap(tbl[id]) EXCEPT !.favorited_at = None])],
              reply |-> None]
        ELSE [tbl |-> IF tbl[id] = None THEN tbl
                      ELSE [tbl EXCEPT ![id] = Some([Unwrap(tbl[id]) EXCEPT !.favorited_at = Some(t)])],
              reply |-> Some(t)]

\* the comments.story_id foreign key of the schema
FkOk(stories_tbl, comment) == stories_tbl[comment.story_id] # None

\* an upsert whose conflict clause tests the stored favorite the wrong way
\* round: a stored favorite is cleared, an absent one takes the incoming value
UpsertCommentInverted(tbl, c) ==
    LET old == tbl[c.id]
        row == IF old = None THEN c
               ELSE [c EXCEPT !.favorited_at =
                        IF Unwrap(old).favorited_at # None THEN None ELSE c.favorited_at]
    IN  [tbl EXCEPT ![c.id] = Some(row)]

\* one INSERT ... ON CONFLICT(id) DO UPDATE of save_comments
UpsertComment(tbl, c) ==
    LET old == tbl[c.id]
        row == IF old = None THEN c
               ELSE [c EXCEPT !.favorited_at = Coalesce(Unwrap(old).favorited_at, c.favorited_at)]
    IN  [tbl EXCEPT ![c.id] = Some(row)]

RECURSIVE UpsertAll(_, _, _)
\* the for loop of save_comments; "failed" when a statement violates the
\* foreign key
UpsertAll(tbl, stories_tbl, comments) ==
    IF comments = <<>>
    THEN [ok |-> TRUE, tbl |-> tbl]
    ELSE IF ~FkOk(stories_tbl, Head(comments))
         THEN [ok |-> FALSE, tbl |-> tbl]
         ELSE UpsertAll(UpsertComment(tbl, Head(comments)), stories_tbl, Tail(comments))

SeqIds(comments) == {comments[i].id : i \in 1..Len(comments)}

\* a purge that forgets the story_id condition
DeleteOrphansAnyStory(tbl, story_id, ids) ==
    [id \in DOMAIN tbl |-> IF id \notin ids THEN None ELSE tbl[id]]

\* DELETE FROM comments WHERE story_id = ?1 AND id NOT IN (ids)
DeleteOrphans(tbl, story_id, ids) ==
    [id \in DOMAIN tbl |->
        IF tbl[id] # None /\ Unwrap(tbl[id]).story_id = story_id /\ id \notin ids
        THEN None ELSE tbl[id]]

\* save_comments: the result and the table afterwards (a failed transaction
\* is rolled back)
save_comments(tbl, stories_tbl, story_id, comments) ==
    IF comments = <<>>
    THEN [ok |-> TRUE, tbl |-> DeleteOrphans(tbl, story_id, {})]
    ELSE LET up == UpsertAll(tbl, stories_tbl, comments)
         IN  IF up.ok
             THEN [ok |-> TRUE, tbl |-> DeleteOrphans(up.tbl, story_id, SeqIds(comments))]
             ELSE [ok |-> FALSE, tbl |-> tbl]

\* get_comments: the rows of a story (SELECT without ORDER BY)
get_comments(tbl, story_id) ==
    {Unwrap(tbl[id]) : id \in {i \in DOMAIN tbl : tbl[i] # None /\ Unwrap(tbl[i]).story_id = story_id}}

----------------------------------------------------------------------------
(* The storage worker (storage/db.rs): one command at a time *)

NoCommand == [op |-> "none"]

\* the stories a caller may hand to save_story: the item as upstream serves
\* it now (its content revision is the time of the fetch)
IncomingStories ==
    {StorableStory(id, now, now, r, f) :
        id \in StoryIds, r \in {None, Some(now)}, f \in {None, Some(now)}}

\* the comments a caller may hand to save_comments(story_id, ..): built by
\* StorableComment::from_comment with that story_id
IncomingComments(story_id) ==
    {StorableComment(id, story_id, now, now, f) :
        id \in CommentIds, f \in {None, Some(now)}}

Batches(S) == UNION {[1..n -> S] : n \in 0..MaxBatch}

SaveStory ==
    \E story \in IncomingStories :
        LET r == save_story(db_stories, story)
        IN  /\ db_stories' = r.tbl
            /\ last' = [op |-> "save_story", story |-> story,
                        before |-> db_stories[story.id], reply |-> r.reply]
            /\ UNCHANGED <<db_comments, now, worker_vars>>
            /\ UNCHANGED <<client_vars, tree_vars, app_vars>>

MarkStoryRead ==
    \E id \in StoryIds :
        /\ db_stories' = mark_story_read(db_stories, id, now)
        /\ last' = [op |-> "mark_story_read", id |-> id, before |-> db_stories[id]]
        /\ UNCHANGED <<db_comments, now, worker_vars>>
        /\ UNCHANGED <<client_vars, tree_vars, app_vars>>

ToggleStoryFavorite ==
    \E id \in StoryIds :
        LET r == toggle_favorite(db_stories, id, now)
        IN  /\ db_stories' = r.tbl
            /\ last' = [op |-> "toggle_story_favorite", id |-> id,
                        before |-> db_stories[id], reply |-> r.reply]
            /\ UNCHANGED <<db_comments, now, worker_vars>>
            /\ UNCHANGED <<client_vars, tree_vars, app_vars>>

\* the ids of the rows of one story
StoredIds(tbl, story_id) ==
    {id \in DOMAIN tbl : tbl[id] # None /\ Unwrap(tbl[id]).story_id = story_id}

SaveComments ==
    \E story_id \in StoryIds :
      \E comments \in Batches(IncomingComments(story_id)) :
        LET r == save_comments(db_comments, db_stories, story_id, comments)
        IN  /\ db_comments' = r.tbl
            /\ last' = [op |-> "save_comments", story_id |-> story_id,
                        ids |-> SeqIds(comments), ok |-> r.ok,
                        purged |-> StoredIds(db_comments, story_id) \ StoredIds(r.tbl, story_id),
                        others_unchanged |->
                            \A o \in StoryIds \ {story_id} :
                                get_comments(r.tbl, o) = get_comments(db_comments, o),
                        changed |-> r.tbl # db_comments]
            /\ UNCHANGED <<db_stories, now, worker_vars>>
            /\ UNCHANGED <<client_vars, tree_vars, app_vars>>

ToggleCommentFavorite ==
    \E id \in CommentIds :
        LET r == toggle_favorite(db_comments, id, now)
        IN  /\ db_comments' = r.tbl
            /\ last' = [op |-> "toggle_comment_favorite", id |-> id, reply |-> r.reply]
            /\ UNCHANGED <<db_stories, now, worker_vars>>
            /\ UNCHANGED <<client_vars, tree_vars, app_vars>>

\* the clock advances
Tick ==
    /\ now < MaxTime
    /\ now' = now + 1
    /\ UNCHANGED <<db_stories, db_comments, last, worker_vars>>
    /\ UNCHANGED <<client_vars, tree_vars, app_vars>>

EmptyStories == [id \in StoryIds |-> None]

EmptyComments == [id \in CommentIds |-> None]

\* no fetch is under way
ClientIdle ==
    /\ upstream = <<>>
    /\ fetch_story = [id |-> 1, kids |-> <<>>]
    /\ pc = "idle"
    /\ to_fetch = <<>>
    /\ fetch_items = <<>>
    /\ fetch_attempted = {}
    /\ fresh = <<>>
    /\ source = "none"
    /\ result = None

\* feed_type_str: the feed_type column
FeedTypes == {"favorites", "top", "new", "best", "ask", "show", "jobs"}

\* the tasks that hold a clone of the Storage handle
NumCallers == 3

Callers == 1..NumCallers

\* two threads on the channel
TwoWorkers == 1 + 1

\* Storage::open: one thread runs run_worker on the one connection
WorkerCount == 1

Workers == 1..WorkerCount

IdleWorker == [pc |-> "recv", cmd |-> NoCommand, existing |-> None]

\* Storage::open: no feed is stored, the channel is empty and the worker
\* waits in blocking_recv
WorkerIdle ==
    /\ db_feeds = [f \in FeedTypes |-> None]
    /\ cmd_queue = <<>>
    /\ worker = [w \in Workers |-> IdleWorker]
    /\ replies = [c \in Callers |-> <<>>]
    /\ sent = <<>>
    /\ worked = <<>>

\* an empty comment tree
TreeIdle ==
    /\ tree_comments = <<>>
    /\ tree_expanded = {}

\* App::new
AppNew ==
    /\ view = [kind |-> "Stories", story_id |-> 0, story_index |-> 0, story_scroll |-> 0]
    /\ feed = "Top"
    /\ stories = <<>>
    /\ selected_index = 0
    /\ scroll_offset = 0
    /\ loading = FALSE
    /\ loading_more = FALSE
    /\ current_page = 0
    /\ has_more = TRUE
    /\ error = None
    /\ should_quit = FALSE
    /\ generation = 0
    /\ viewport_height = None
    /\ tasks = <<>>

\* The stories table after migration: empty
InitStories ==
    /\ db_stories = EmptyStories
    /\ db_comments = EmptyComments
    /\ now = 1
    /\ WorkerIdle
    /\ last = NoCommand
    /\ ClientIdle
    /\ TreeIdle
    /\ AppNew

NextStories == SaveStory \/ MarkStoryRead \/ ToggleStoryFavorite \/ Tick

SpecStories == InitStories /\ [][NextStories]_vars

\* The comments table after migration: empty; the stories have been saved
\* before, all of them or all but the last
InitComments ==
    /\ \E present \in {StoryIds, StoryIds \ {NumStories}} :
          db_stories = [id \in StoryIds |->
                          IF id \in present THEN Some(StorableStory(id, 1, 1, None, None)) ELSE None]
    /\ db_comments = EmptyComments
    /\ now = 1
    /\ WorkerIdle
    /\ last = NoCommand
    /\ ClientIdle
    /\ TreeIdle
    /\ AppNew

NextComments == SaveComments \/ ToggleCommentFavorite \/ Tick

SpecComments == InitComments /\ [][NextComments]_vars

\* The tables after a story list and a thread were saved: every story, and
\* every comment but the last, is stored and not a favorite
InitFavorites ==
    /\ db_stories = [id \in StoryIds |-> Some(StorableStory(id, 1, 1, None, None))]
    /\ db_comments = [id \in CommentIds |->
                         IF id < NumComments THEN Some(StorableComment(id, 1, 1, 1, None))
                         ELSE None]
    /\ now = 1
    /\ WorkerIdle
    /\ last = NoCommand
    /\ ClientIdle
    /\ TreeIdle
    /\ AppNew

NextFavorites == ToggleStoryFavorite \/ ToggleCommentFavorite \/ MarkStoryRead \/ Tick

SpecFavorites == InitFavorites /\ [][NextFavorites]_vars

----------------------------------------------------------------------------
(* Sequences and maps *)

Min(a, b) == IF a <= b THEN a ELSE b

Reverse(seq) == [i \in 1..Len(seq) |-> seq[Len(seq) + 1 - i]]

Range(seq) == {seq[i] : i \in 1..Len(seq)}

\* every ordering of a finite set
Orders(S) == {seq \in [1..Cardinality(S) -> S] : Range(seq) = S}

RECURSIVE Ascending(_)
Ascending(S) ==
    IF S = {} THEN <<>>
    ELSE LET m == CHOOSE x \in S : \A y \in S : x <= y
         IN  <<m>> \o Ascending(S \ {m})

\* A HashMap<u64, T> is the sequence of its entries, in the order the table
\* would iterate them; keys are unique.
MapKeys(m) == {m[i].key : i \in 1..Len(m)}

MapGet(m, k) == m[CHOOSE i \in 1..Len(m) : m[i].key = k].val

MapVals(m) == {m[i].val : i \in 1..Len(m)}

MapRemove(m, k) == SelectSeq(m, LAMBDA e : e.key # k)

MapInsert(m, k, v) ==
    IF k \in MapKeys(m)
    THEN [i \in 1..Len(m) |-> IF m[i].key = k THEN [key |-> k, val |-> v] ELSE m[i]]
    ELSE Append(m, [key |-> k, val |-> v])

----------------------------------------------------------------------------
(* api/types.rs *)

\* html_escape::decode_html_entities on the texts upstream serves
decode_html_entities(text) == IF text = "a &amp; b" THEN "a & b" ELSE text

\* Comment::from_item
from_item(item, depth) ==
    IF item.deleted = Some(TRUE) \/ item.dead = Some(TRUE)
    THEN None
    ELSE IF item.text = None
         THEN None
         ELSE Some([id |-> item.id,
                    text |-> decode_html_entities(Unwrap(item.text)),
                    by |-> IF item.by = None THEN "[deleted]" ELSE Unwrap(item.by),
                    time |-> IF item.time = None THEN 0 ELSE Unwrap(item.time),
                    depth |-> depth,
                    kids |-> item.kids,
                    favorited_at |-> None])

\* StorableComment::from_comment
from_comment(comment, story_id, parent_id, t) ==
    [id |-> comment.id, story_id |-> story_id, parent_id |-> parent_id,
     text |-> comment.text, by |-> comment.by, time |-> comment.time,
     depth |-> comment.depth, kids |-> comment.kids,
     fetched_at |-> t, favorited_at |-> comment.favorited_at]

\* impl From<StorableComment> for Comment
comment_from_stored(stored) ==
    [id |-> stored.id, text |-> stored.text, by |-> stored.by, time |-> stored.time,
     depth |-> stored.depth, kids |-> stored.kids, favorited_at |-> stored.favorited_at]

----------------------------------------------------------------------------
(* api/client.rs: the tree builders *)

\* find_parent_id: the first comment that lists comment_id among its kids
find_parent_id(comments, comment_id) ==
    LET hits == {i \in 1..Len(comments) : comment_id \in Range(comments[i].kids)}
    IN  IF hits = {} THEN None
        ELSE Some(comments[CHOOSE i \in hits : \A j \in hits : i <= j].id)

\* build_tree: the stack is a Vec whose top is its last element; the closures
\* get_kids and to_comment are functions of the items (and the depth)
build_tree(map, root_kids, get_kids, to_comment) ==
    LET RECURSIVE Loop(_, _, _)
        Loop(stack, its, out) ==
            IF stack = <<>>
            THEN out
            ELSE LET top == stack[Len(stack)]
                     rest == SubSeq(stack, 1, Len(stack) - 1)
                 IN  IF top.id \in MapKeys(its)
                     THEN LET item == MapGet(its, top.id)
                              kids == Reverse(get_kids[item])
                              pushed == rest \o [i \in 1..Len(kids) |->
                                                   [id |-> kids[i], depth |-> top.depth + 1]]
                              c == to_comment[item, top.depth]
                          IN  Loop(pushed, MapRemove(its, top.id),
                                   IF c = None THEN out ELSE Append(out, Unwrap(c)))
                     ELSE Loop(rest, its, out)
        roots == Reverse(root_kids)
    IN  Loop([i \in 1..Len(roots) |-> [id |-> roots[i], depth |-> 0]], map, <<>>)

\* a filter that keeps only the kids that were fetched
RetainPresentKids(kids, att, present) ==
    SelectSeq(kids, LAMBDA kid_id : kid_id \in present)

\* the retain() of build_comment_tree
RetainKids(kids, att, present) ==
    SelectSeq(kids, LAMBDA kid_id : kid_id \notin att \/ kid_id \in present)

\* build_comment_tree
build_comment_tree(map, att, root_kids) ==
    LET present == MapKeys(map)
        filtered == [i \in 1..Len(map) |->
                        [key |-> map[i].key,
                         val |-> [map[i].val EXCEPT !.kids = RetainKids(@, att, present)]]]
    IN  build_tree(filtered, root_kids,
                   [item \in MapVals(filtered) |-> item.kids],
                   [item \in MapVals(filtered), depth \in 0..Len(filtered) |->
                       from_item(item, depth)])

RECURSIVE CollectById(_, _)
\* cached.into_iter().map(|c| (c.id, c)).collect::<HashMap>()
CollectById(cached, map) ==
    IF cached = <<>> THEN map
    ELSE CollectById(Tail(cached), MapInsert(map, Head(cached).id, Head(cached)))

\* an ordering that trusts the order of the stored rows
order_cached_comments_as_stored(cached, root_kids) == cached

\* order_cached_comments
order_cached_comments(cached, root_kids) ==
    LET map == CollectById(cached, <<>>)
    IN  build_tree(map, root_kids,
                   [c \in MapVals(map) |-> c.kids],
                   [c \in MapVals(map), depth \in 0..Len(map) |-> Some(c)])

\* algolia_to_comment
algolia_to_comment(item, depth) ==
    IF item.text = None
    THEN None
    ELSE Some([id |-> item.id,
               text |-> decode_html_entities(Unwrap(item.text)),
               by |-> IF item.author = None THEN "[deleted]" ELSE Unwrap(item.author),
               time |-> IF item.created_at_i = None THEN 0 ELSE Unwrap(item.created_at_i),
               depth |-> depth,
               kids |-> [i \in 1..Len(item.children) |-> item.children[i].id],
               favorited_at |-> None])

RECURSIVE FlattenChildren(_, _)
\* the for loop of flatten_algolia_tree over item.children
FlattenChildren(children, depth) ==
    IF children = <<>>
    THEN <<>>
    ELSE LET child == Head(children)
             c == algolia_to_comment(child, depth)
         IN  (IF child.item_type = Some("comment") /\ c # None
              THEN <<Unwrap(c)>> \o FlattenChildren(child.children, depth + 1)
              ELSE <<>>)
             \o FlattenChildren(Tail(children), depth)

RECURSIVE FlattenThrough(_, _)
\* a flattening that leaves a node out but still walks its children
FlattenThrough(children, depth) ==
    IF children = <<>>
    THEN <<>>
    ELSE LET child == Head(children)
             c == algolia_to_comment(child, depth)
         IN  (IF child.item_type = Some("comment") /\ c # None THEN <<Unwrap(c)>> ELSE <<>>)
             \o FlattenThrough(child.children, depth + 1)
             \o FlattenThrough(Tail(children), depth)

flatten_algolia_tree_through(item, depth) == FlattenThrough(item.children, depth)

\* flatten_algolia_tree
flatten_algolia_tree(item, depth) == FlattenChildren(item.children, depth)

----------------------------------------------------------------------------
(* The upstream API *)

ThreadIds == 1..NumComments

\* a comment's state upstream: "missing" (the item request fails), "gone"
\* (deleted or dead), "textless" (served without text) or "ok"
Statuses == {"missing", "gone", "textless", "ok"}

\* threads are forests: every comment replies to the story (0) or to an
\* older comment
ParentMaps == {p \in [ThreadIds -> 0..NumComments] : \A i \in ThreadIds : p[i] < i}

\* the replies to `parent`, in the order upstream ranks them
RankedKids(p, parent, descending) ==
    LET asc == Ascending({i \in ThreadIds : p[i] = parent})
    IN  IF descending THEN Reverse(asc) ELSE asc

RawText(id) == IF id = 1 THEN "a &amp; b" ELSE "plain"

\* GET {firebase}/item/{id}.json: None when the request fails
fetch_item(id) ==
    LET u == upstream[id]
    IN  IF u.status = "missing"
        THEN None
        ELSE Some([id |-> id, by |-> Some(id), time |-> Some(id),
                   text |-> IF u.status = "ok" THEN Some(RawText(id)) ELSE None,
                   kids |-> u.kids,
                   deleted |-> IF u.status = "gone" /\ id % 2 = 1 THEN Some(TRUE) ELSE None,
                   dead |-> IF u.status = "gone" /\ id % 2 = 0 THEN Some(TRUE) ELSE None])

RECURSIVE AlgoliaNode(_)
\* the node of a comment in the batch tree: a comment that is gone or has
\* no text is served without text, a missing one is not served; "other" is a
\* node of another type than "comment", with text
AlgoliaNode(id) ==
    LET u == upstream[id]
        served == SelectSeq(u.kids, LAMBDA k : upstream[k].status # "missing")
    IN  [id |-> id, author |-> Some(id), created_at_i |-> Some(id),
         text |-> IF u.status \in {"ok", "other"} THEN Some(RawText(id)) ELSE None,
         item_type |-> IF u.status = "other" THEN Some("pollopt") ELSE Some("comment"),
         children |-> [i \in 1..Len(served) |-> AlgoliaNode(served[i])]]

\* GET {algolia}/items/{story_id}
fetch_algolia_item(st) ==
    LET served == SelectSeq(st.kids, LAMBDA k : upstream[k].status # "missing")
    IN  [id |-> st.id, author |-> Some(0), created_at_i |-> Some(0), text |-> None,
         item_type |-> Some("story"),
         children |-> [i \in 1..Len(served) |-> AlgoliaNode(served[i])]]

----------------------------------------------------------------------------
(* api/client.rs: fetch_comments_flat *)

\* 24 hours
CACHE_TTL == 86400

\* a freshness test that still accepts an entry of exactly the TTL
is_fresh_inclusive(fetched_at, t) == (IF t >= fetched_at THEN t - fetched_at ELSE 0) <= CACHE_TTL

\* StorableStory::is_fresh, StorableComment::is_fresh, CachedFeed::is_fresh
is_fresh(fetched_at, t) == (IF t >= fetched_at THEN t - fetched_at ELSE 0) < CACHE_TTL

RECURSIVE WaveLoop(_, _, _, _)
\* the for loop of one wave of fetch_comments_firebase
WaveLoop(queue, map, att, next_fetch) ==
    IF queue = <<>>
    THEN [items |-> map, attempted |-> att, to_fetch |-> next_fetch]
    ELSE LET id == Head(queue)
             got == fetch_item(id)
         IN  IF got = None \/ Unwrap(got).deleted = Some(TRUE) \/ Unwrap(got).dead = Some(TRUE)
             THEN WaveLoop(Tail(queue), map, att \cup {id}, next_fetch)
             ELSE WaveLoop(Tail(queue), MapInsert(map, id, Unwrap(got)), att \cup {id},
                           next_fetch \o Unwrap(got).kids)

\* HnClient::save_comments
client_save_comments(tbl, stories_tbl, story_id, comments, t) ==
    save_comments(tbl, stories_tbl, story_id,
                  [i \in 1..Len(comments) |->
                      from_comment(comments[i], story_id,
                                   find_parent_id(comments, comments[i].id), t)])

\* the rows of a story as comments, in the order get_comments returned them
CachedComments(rows) == [i \in 1..Len(rows) |-> comment_from_stored(rows[i])]

\* fetch_comments_flat begins: the cache is consulted unless force_refresh
FetchCommentsFlat ==
    /\ pc \in {"start", "done"}
    /\ \E force_refresh \in BOOLEAN :
       \E rows \in Orders(get_comments(db_comments, fetch_story.id)) :
          IF ~force_refresh /\ rows # <<>> /\ is_fresh(rows[1].fetched_at, now)
          THEN /\ result' = Some([ok |-> TRUE,
                                  comments |-> order_cached_comments(CachedComments(rows),
                                                                     fetch_story.kids)])
               /\ source' = "cache"
               /\ pc' = "done"
               /\ UNCHANGED <<to_fetch, fetch_items, fetch_attempted, fresh>>
          ELSE /\ result' = None
               /\ source' = "none"
               /\ pc' = "primary"
               /\ to_fetch' = <<>>
               /\ fetch_items' = <<>>
               /\ fetch_attempted' = {}
               /\ fresh' = <<>>
    /\ UNCHANGED <<upstream, fetch_story>>
    /\ UNCHANGED <<storage_vars, tree_vars, app_vars>>

\* the primary endpoint answers: the tree is flattened
AlgoliaOk ==
    /\ pc = "primary"
    /\ fresh' = flatten_algolia_tree(fetch_algolia_item(fetch_story), 0)
    /\ source' = "algolia"
    /\ pc' = "save"
    /\ UNCHANGED <<upstream, fetch_story, to_fetch, fetch_items, fetch_attempted, result>>
    /\ UNCHANGED <<storage_vars, tree_vars, app_vars>>

\* the primary endpoint fails: fetch_comments_firebase starts with the
\* story's kids; with none to fetch it builds the empty tree at once
AlgoliaFails ==
    /\ pc = "primary"
    /\ source' = "firebase"
    /\ fetch_items' = <<>>
    /\ fetch_attempted' = {}
    /\ to_fetch' = fetch_story.kids
    /\ IF fetch_story.kids = <<>>
       THEN /\ fresh' = build_comment_tree(<<>>, {}, fetch_story.kids)
            /\ pc' = "save"
       ELSE /\ pc' = "crawl"
            /\ UNCHANGED fresh
    /\ UNCHANGED <<upstream, fetch_story, result>>
    /\ UNCHANGED <<storage_vars, tree_vars, app_vars>>

\* one wave of the crawl has been answered; when nothing is left to fetch
\* the tree is built
CrawlWave ==
    /\ pc = "crawl"
    /\ LET w == WaveLoop(to_fetch, fetch_items, fetch_attempted, <<>>)
       IN  /\ fetch_items' = w.items
           /\ fetch_attempted' = w.attempted
           /\ to_fetch' = w.to_fetch
           /\ IF w.to_fetch = <<>>
              THEN /\ fresh' = build_comment_tree(w.items, w.attempted, fetch_story.kids)
                   /\ pc' = "save"
              ELSE UNCHANGED <<fresh, pc>>
    /\ UNCHANGED <<upstream, fetch_story, source, result>>
    /\ UNCHANGED <<storage_vars, tree_vars, app_vars>>

\* a caller hands build_comment_tree a map of fetched items and an attempted
\* set of its own
DirectBuild ==
    /\ pc = "start"
    /\ \E keys \in SUBSET {id \in ThreadIds : upstream[id].status \in {"ok", "textless"}} :
       \E att \in SUBSET ThreadIds :
          LET order == Ascending(keys)
              map == [i \in 1..Len(order) |->
                         [key |-> order[i], val |-> Unwrap(fetch_item(order[i]))]]
          IN  /\ fetch_items' = map
              /\ fetch_attempted' = att
              /\ fresh' = build_comment_tree(map, att, fetch_story.kids)
    /\ source' = "direct"
    /\ pc' = "save"
    /\ UNCHANGED <<upstream, fetch_story, to_fetch, result>>
    /\ UNCHANGED <<storage_vars, tree_vars, app_vars>>

\* Storage::save_comments: the command reaches the worker and its reply comes
\* back, or the channel is closed and the call fails with nothing written
storage_save_comments(delivered, tbl, stories_tbl, story_id, comments, t) ==
    IF delivered
    THEN client_save_comments(tbl, stories_tbl, story_id, comments, t)
    ELSE [ok |-> FALSE, tbl |-> tbl]

\* the write-through, then the comments are returned
WriteThrough ==
    /\ pc = "save"
    /\ \E delivered \in BOOLEAN :
       LET r == storage_save_comments(delivered, db_comments, db_stories, fetch_story.id,
                                      fresh, now)
       IN  /\ db_comments' = r.tbl
           /\ last' = [op |-> "save_comments", story_id |-> fetch_story.id,
                       ids |-> {fresh[i].id : i \in 1..Len(fresh)}, ok |-> r.ok]
           /\ result' = Some([ok |-> r.ok, comments |-> IF r.ok THEN fresh ELSE <<>>])
    /\ pc' = "done"
    /\ UNCHANGED <<upstream, fetch_story, to_fetch, fetch_items, fetch_attempted, fresh, source>>
    /\ UNCHANGED <<db_stories, now, worker_vars, tree_vars, app_vars>>

\* Any thread upstream; the story has been saved by the stories fetch
InitClient ==
    /\ \E p \in ParentMaps, descending \in BOOLEAN, st \in [ThreadIds -> Statuses] :
          /\ upstream = [id \in ThreadIds |->
                            [status |-> st[id], kids |-> RankedKids(p, id, descending)]]
          /\ fetch_story = [id |-> 1, kids |-> RankedKids(p, 0, descending)]
    /\ db_stories = [id \in StoryIds |->
                        IF id = 1 THEN Some(StorableStory(1, 1, 1, None, None)) ELSE None]
    /\ db_comments = EmptyComments
    /\ now = 1
    /\ WorkerIdle
    /\ last = NoCommand
    /\ pc = "start"
    /\ to_fetch = <<>>
    /\ fetch_items = <<>>
    /\ fetch_attempted = {}
    /\ fresh = <<>>
    /\ source = "none"
    /\ result = None
    /\ TreeIdle
    /\ AppNew

NextClient ==
    FetchCommentsFlat \/ AlgoliaOk \/ AlgoliaFails \/ CrawlWave \/ DirectBuild \/ WriteThrough

SpecClient == InitClient /\ [][NextClient]_vars

----------------------------------------------------------------------------
(* api/client.rs: fetch_stories *)

MaxDays == 1

MaxPage == 2

PAGE_SIZE == 30

\* an upstream story item: "missing" (the item request fails), "untitled"
\* (served without a title) or "ok"; its content is revision v
StoryStatuses == {"missing", "untitled", "ok"}

\* GET {firebase}/item/{id}.json for a story: only the ids of StoryIds are
\* served, the request for any other id fails
fetch_story_item(id, st, v) ==
    IF id \notin StoryIds \/ st[id] = "missing"
    THEN None
    ELSE Some([id |-> id, title |-> IF st[id] = "ok" THEN Some(v) ELSE None,
               url |-> IF v = 1 THEN None ELSE Some(v), score |-> Some(v), by |-> None,
               time |-> Some(v), descendants |-> None,
               kids |-> IF v = 1 THEN <<>> ELSE <<v>>])

\* Story::from_item
story_from_item(item) ==
    IF item.title = None
    THEN None
    ELSE Some([id |-> item.id, title |-> Unwrap(item.title), url |-> item.url,
               score |-> IF item.score = None THEN 0 ELSE Unwrap(item.score),
               by |-> IF item.by = None THEN "[deleted]" ELSE Unwrap(item.by),
               time |-> IF item.time = None THEN 0 ELSE Unwrap(item.time),
               descendants |-> IF item.descendants = None THEN 0
                               ELSE Unwrap(item.descendants),
               kids |-> item.kids])

\* impl From<&Story> for StorableStory
storable_from_story(story, t) ==
    [id |-> story.id, title |-> story.title, url |-> story.url, score |-> story.score,
     by |-> story.by, time |-> story.time, descendants |-> story.descendants,
     kids |-> story.kids, fetched_at |-> t, read_at |-> None, favorited_at |-> None]

\* impl From<StorableStory> for Story
story_from_stored(stored) ==
    [id |-> stored.id, title |-> stored.title, url |-> stored.url, score |-> stored.score,
     by |-> stored.by, time |-> stored.time, descendants |-> stored.descendants,
     kids |-> stored.kids]

\* Storage::get_fresh_story
get_fresh_story(tbl, id, t) ==
    LET story == get_story(tbl, id)
    IN  IF story # None /\ is_fresh(Unwrap(story).fetched_at, t) THEN story ELSE None

RECURSIVE CacheLoop(_, _, _, _, _)
\* fetch_stories_by_ids: for &id in ids, the cache check
CacheLoop(tbl, ids, t, cached, misses) ==
    IF ids = <<>>
    THEN [stories |-> cached, to_fetch |-> misses]
    ELSE LET hit == get_fresh_story(tbl, Head(ids), t)
         IN  IF hit # None
             THEN CacheLoop(tbl, Tail(ids), t,
                            Append(cached, story_from_stored(Unwrap(hit))), misses)
             ELSE CacheLoop(tbl, Tail(ids), t, cached, Append(misses, Head(ids)))

RECURSIVE FetchedStoriesOf(_, _, _)
\* results.into_iter().filter_map(|r| r.ok()).filter_map(Story::from_item)
FetchedStoriesOf(misses, st, v) ==
    IF misses = <<>>
    THEN <<>>
    ELSE LET got == fetch_story_item(Head(misses), st, v)
             story == IF got = None THEN None ELSE story_from_item(Unwrap(got))
         IN  (IF story = None THEN <<>> ELSE <<Unwrap(story)>>)
             \o FetchedStoriesOf(Tail(misses), st, v)

\* a write-through that reports success and stores nothing
SaveLoopSkipped(tbl, fetched, t, fail_at) == [ok |-> TRUE, tbl |-> tbl]

RECURSIVE SaveLoop(_, _, _, _)
\* for story in &fetched { storage.save_story(..).await? }: the save numbered
\* fail_at fails (0: none does)
SaveLoop(tbl, fetched, t, fail_at) ==
    IF fetched = <<>>
    THEN [ok |-> TRUE, tbl |-> tbl]
    ELSE IF fail_at = 1
         THEN [ok |-> FALSE, tbl |-> tbl]
         ELSE SaveLoop(save_story(tbl, storable_from_story(Head(fetched), t)).tbl,
                       Tail(fetched), t, IF fail_at = 0 THEN 0 ELSE fail_at - 1)

\* id_positions: the last 0-based position of each id
id_positions(ids) ==
    [id \in Range(ids) |-> (CHOOSE i \in 1..Len(ids) :
                               ids[i] = id /\ \A j \in 1..Len(ids) : ids[j] = id => j <= i) - 1]

\* the key of sort_by_key: the position, or usize::MAX for an id not listed
PositionKey(positions, id) == IF id \in DOMAIN positions THEN positions[id] ELSE -1

RECURSIVE InsertByKey(_, _, _)
\* a story enters a sorted run behind every story that does not sort after it
InsertByKey(sorted, story, positions) ==
    LET before(a, b) ==
            LET ka == PositionKey(positions, a.id)
                kb == PositionKey(positions, b.id)
            IN  IF ka = -1 THEN FALSE ELSE IF kb = -1 THEN TRUE ELSE ka < kb
    IN  IF sorted = <<>>
        THEN <<story>>
        ELSE IF before(story, Head(sorted))
             THEN <<story>> \o sorted
             ELSE <<Head(sorted)>> \o InsertByKey(Tail(sorted), story, positions)

RECURSIVE SortByKey(_, _, _)
\* stories.sort_by_key(..): a stable sort
SortByKey(sorted, rest, positions) ==
    IF rest = <<>>
    THEN sorted
    ELSE SortByKey(InsertByKey(sorted, Head(rest), positions), Tail(rest), positions)

\* the re-sort by original id order
sort_by_position(stories_seq, ids) == SortByKey(<<>>, stories_seq, id_positions(ids))

\* fetch_stories_by_ids: [ok, stories, tbl]
fetch_stories_by_ids(tbl, ids, force_refresh, st, t, fail_at) ==
    LET checked == IF force_refresh
                   THEN [stories |-> <<>>, to_fetch |-> ids]
                   ELSE CacheLoop(tbl, ids, t, <<>>, <<>>)
        fetched == FetchedStoriesOf(checked.to_fetch, st, t)
        saved == SaveLoop(tbl, fetched, t, fail_at)
    IN  IF checked.to_fetch = <<>>
        THEN [ok |-> TRUE, stories |-> sort_by_position(checked.stories, ids), tbl |-> tbl,
              write_failed |-> FALSE]
        ELSE IF saved.ok
             THEN [ok |-> TRUE,
                   stories |-> sort_by_position(checked.stories \o fetched, ids),
                   tbl |-> saved.tbl, write_failed |-> FALSE]
             ELSE [ok |-> FALSE, stories |-> <<>>, tbl |-> saved.tbl, write_failed |-> TRUE]

\* a window that starts one id late
page_start_off_by_one(page) == page * PAGE_SIZE + 1

\* let start = page * PAGE_SIZE
page_start(page) == page * PAGE_SIZE

\* fetch_stories once fetch_feed_ids has returned ids
fetch_stories(tbl, ids, page, force_refresh, st, t, fail_at) ==
    LET start == page_start(page)
        end == Min(start + PAGE_SIZE, Len(ids))
    IN  IF start >= Len(ids)
        THEN [ok |-> TRUE, stories |-> <<>>, tbl |-> tbl, write_failed |-> FALSE]
        ELSE fetch_stories_by_ids(tbl, SubSeq(ids, start + 1, end), force_refresh, st, t,
                                  fail_at)

\* the lengths of the feed id lists upstream serves
FeedLens == {0, 2, PAGE_SIZE, PAGE_SIZE + 1}

\* the places of a list at which the ids of StoryIds may stand
Places(n) == {1, PAGE_SIZE, PAGE_SIZE + 1} \cap 1..n

\* the feed id lists: distinct ids, those of StoryIds at some of the places
\* and ids that upstream fails to serve everywhere else
FeedLists ==
    UNION {{[i \in 1..n |-> IF \E id \in StoryIds : at[id] = i
                            THEN CHOOSE id \in StoryIds : at[id] = i
                            ELSE NumStories + i] :
               at \in {f \in [StoryIds -> Places(n) \cup {0}] :
                          \A a, b \in StoryIds : (a # b /\ f[a] # 0) => f[a] # f[b]}} :
           n \in FeedLens}

\* the ids of a sequence of stories
StoryIdsOf(stories_seq) == [i \in 1..Len(stories_seq) |-> stories_seq[i].id]

\* the places of the feed id list that page covers
WindowOf(ids, page) ==
    {j \in 1..Len(ids) : page * PAGE_SIZE < j /\ j <= (page + 1) * PAGE_SIZE}

\* the call on the feed id list ids has returned r: what the task sends and
\* the table afterwards
Returned(r, ids, page) ==
    /\ db_stories' = r.tbl
    /\ last' = [op |-> "fetch_stories", ok |-> r.ok, page |-> page, len |-> Len(ids),
                returned |-> StoryIdsOf(r.stories), write_failed |-> r.write_failed,
                written |-> {id \in StoryIds : r.tbl[id] # db_stories[id]},
                stored |-> \A i \in 1..Len(r.stories) :
                              /\ r.tbl[r.stories[i].id] # None
                              /\ story_from_stored(Unwrap(r.tbl[r.stories[i].id])) = r.stories[i],
                in_window |-> \A i \in 1..Len(r.stories) :
                                 \E j \in WindowOf(ids, page) : ids[j] = r.stories[i].id,
                in_order |-> \A i, k \in 1..Len(r.stories) :
                                i < k => \E j, l \in 1..Len(ids) :
                                            /\ ids[j] = r.stories[i].id
                                            /\ ids[l] = r.stories[k].id
                                            /\ j < l]

\* a stories task runs client.fetch_stories(feed, page, force_refresh) and
\* sends its result; a failed fetch_feed_ids sends the error at once
FetchStoriesFrom(lists, pages) ==
    /\ \/ Returned([ok |-> FALSE, stories |-> <<>>, tbl |-> db_stories,
                    write_failed |-> FALSE], <<>>, 0)
       \/ \E ids \in lists, page \in pages, force_refresh \in BOOLEAN,
             st \in [StoryIds -> StoryStatuses], fail_at \in 0..NumStories :
             Returned(fetch_stories(db_stories, ids, page, force_refresh, st, now, fail_at),
                      ids, page)
    /\ UNCHANGED <<db_comments, now, worker_vars>>
    /\ UNCHANGED <<client_vars, tree_vars, app_vars>>

\* a stories task of any page of any feed list
FetchStories == FetchStoriesFrom(FeedLists, 0..MaxPage)

\* the stories task of the initial load: page 0 of a short feed list
FetchFrontPage == FetchStoriesFrom({ids \in FeedLists : Len(ids) = 2}, {0})

\* a day passes
TickTtl ==
    /\ now < MaxDays * CACHE_TTL
    /\ now' = now + CACHE_TTL
    /\ UNCHANGED <<db_stories, db_comments, last, worker_vars>>
    /\ UNCHANGED <<client_vars, tree_vars, app_vars>>

InitFetch ==
    /\ db_stories = EmptyStories
    /\ db_comments = EmptyComments
    /\ now = 1
    /\ WorkerIdle
    /\ last = NoCommand
    /\ ClientIdle
    /\ TreeIdle
    /\ AppNew

NextFetch == FetchStories \/ TickTtl

SpecFetch == InitFetch /\ [][NextFetch]_vars

\* The tasks the controller spawns: the stories fetch of the front page and
\* the comments fetch of story 1, over a thread in which comment 2 replies
\* to comment 1; nothing is stored yet
InitTasks ==
    /\ \E st \in [ThreadIds -> {"missing", "textless", "ok"}] :
          LET p == [i \in ThreadIds |-> IF i = 2 THEN 1 ELSE 0]
          IN  /\ upstream = [id \in ThreadIds |->
                                [status |-> st[id], kids |-> RankedKids(p, id, FALSE)]]
              /\ fetch_story = [id |-> 1, kids |-> RankedKids(p, 0, FALSE)]
    /\ db_stories = EmptyStories
    /\ db_comments = EmptyComments
    /\ now = 1
    /\ WorkerIdle
    /\ last = NoCommand
    /\ pc = "start"
    /\ to_fetch = <<>>
    /\ fetch_items = <<>>
    /\ fetch_attempted = {}
    /\ fresh = <<>>
    /\ source = "none"
    /\ result = None
    /\ TreeIdle
    /\ AppNew

NextTasks ==
    \/ FetchFrontPage
    \/ FetchCommentsFlat \/ AlgoliaOk \/ AlgoliaFails \/ CrawlWave \/ WriteThrough

SpecTasks == InitTasks /\ [][NextTasks]_vars

----------------------------------------------------------------------------
(* storage/db.rs: the channel and the worker thread *)

\* Storage::toggle_story_favorite: the command with its oneshot sender
ToggleCommand(id, c) == [op |-> "toggle_story_favorite", id |-> id, reply_to |-> c]

\* toggle_story_favorite: SELECT favorited_at FROM stories WHERE id = ?1
select_favorited_at(tbl, id) ==
    IF tbl[id] = None THEN None ELSE Unwrap(tbl[id]).favorited_at

\* toggle_story_favorite: the UPDATE that follows the SELECT, and the value
\* returned
update_favorited_at(tbl, id, existing, t) ==
    LET value == IF existing # None THEN None ELSE Some(t)
    IN  [tbl |-> IF tbl[id] = None THEN tbl
                 ELSE [tbl EXCEPT ![id] = Some([Unwrap(tbl[id]) EXCEPT !.favorited_at = value])],
         reply |-> value]

\* a task calls storage.toggle_story_favorite(id): cmd_tx.send(..).await
SendCommand ==
    \E c \in Callers, id \in StoryIds :
        /\ \A i \in 1..Len(sent) : sent[i].reply_to # c
        /\ cmd_queue' = Append(cmd_queue, ToggleCommand(id, c))
        /\ sent' = Append(sent, ToggleCommand(id, c))
        /\ UNCHANGED <<db_stories, db_comments, now, last, db_feeds, worker, replies, worked>>
        /\ UNCHANGED <<client_vars, tree_vars, app_vars>>

\* run_worker: while let Some(cmd) = cmd_rx.blocking_recv()
WorkerRecv ==
    \E w \in Workers :
        /\ worker[w].pc = "recv"
        /\ cmd_queue # <<>>
        /\ worker' = [worker EXCEPT ![w] = [pc |-> "select", cmd |-> Head(cmd_queue),
                                            existing |-> None]]
        /\ cmd_queue' = Tail(cmd_queue)
        /\ UNCHANGED <<db_stories, db_comments, now, last, db_feeds, replies, sent, worked>>
        /\ UNCHANGED <<client_vars, tree_vars, app_vars>>

\* queries::toggle_story_favorite: the SELECT
WorkerSelect ==
    \E w \in Workers :
        /\ worker[w].pc = "select"
        /\ worker' = [worker EXCEPT ![w].pc = "update",
                                    ![w].existing = select_favorited_at(db_stories,
                                                                        worker[w].cmd.id)]
        /\ UNCHANGED <<db_stories, db_comments, now, last, db_feeds, cmd_queue, replies, sent,
                       worked>>
        /\ UNCHANGED <<client_vars, tree_vars, app_vars>>

\* queries::toggle_story_favorite: the UPDATE, then reply.send(result)
WorkerUpdate ==
    \E w \in Workers :
        /\ worker[w].pc = "update"
        /\ LET cmd == worker[w].cmd
               r == update_favorited_at(db_stories, cmd.id, worker[w].existing, now)
           IN  /\ db_stories' = r.tbl
               /\ replies' = [replies EXCEPT ![cmd.reply_to] = Append(@, r.reply)]
               /\ worked' = Append(worked, cmd)
               /\ last' = [op |-> "toggle_story_favorite", id |-> cmd.id,
                           before |-> db_stories[cmd.id], reply |-> r.reply]
        /\ worker' = [worker EXCEPT ![w] = IdleWorker]
        /\ UNCHANGED <<db_comments, now, db_feeds, cmd_queue, sent>>
        /\ UNCHANGED <<client_vars, tree_vars, app_vars>>

\* the worker thread takes a step
WorkerStep == WorkerRecv \/ WorkerSelect \/ WorkerUpdate

NextWorker == SendCommand \/ WorkerStep \/ Tick

\* the worker thread runs for as long as the handle lives
SpecWorker == InitFavorites /\ [][NextWorker]_vars /\ WF_vars(WorkerStep)

----------------------------------------------------------------------------
(* storage/mod.rs: the fresh getters *)

\* save_feed: the feeds row takes fetched_at = now, the feed_stories rows are
\* replaced by the ids in their positions
save_feed(tbl, feed_type, ids, t) ==
    [tbl EXCEPT ![feed_type] = Some([ids |-> ids, fetched_at |-> t])]

\* get_feed: None without a feeds row and None without feed_stories rows
get_feed(tbl, feed_type) ==
    IF tbl[feed_type] = None \/ Unwrap(tbl[feed_type]).ids = <<>>
    THEN None
    ELSE Some([feed |-> feed_type, ids |-> Unwrap(tbl[feed_type]).ids,
               fetched_at |-> Unwrap(tbl[feed_type]).fetched_at])

\* Storage::get_fresh_feed
get_fresh_feed(tbl, feed_type, t) ==
    LET cached == get_feed(tbl, feed_type)
    IN  IF cached # None /\ is_fresh(Unwrap(cached).fetched_at, t) THEN cached ELSE None

\* Storage::get_fresh_comments, on the rows in the order get_comments
\* returned them
get_fresh_comments(rows, t) ==
    IF rows = <<>>
    THEN None
    ELSE IF is_fresh(rows[1].fetched_at, t)
         THEN Some([comments |-> rows, fetched_at |-> rows[1].fetched_at])
         ELSE None

\* a story is written through
CacheStory ==
    \E id \in StoryIds :
        LET story == StorableStory(id, 1, now, None, None)
            r == save_story(db_stories, story)
        IN  /\ db_stories' = r.tbl
            /\ last' = [op |-> "save_story", story |-> story,
                        before |-> db_stories[id], reply |-> r.reply]
            /\ UNCHANGED <<db_comments, now, worker_vars>>
            /\ UNCHANGED <<client_vars, tree_vars, app_vars>>

\* the two comments of story 1 are written through
CacheComments ==
    LET comments == <<StorableComment(1, 1, 1, now, None), StorableComment(2, 1, 1, now, None)>>
        r == save_comments(db_comments, db_stories, 1, comments)
    IN  /\ db_comments' = r.tbl
        /\ last' = [op |-> "save_comments", story_id |-> 1, ids |-> SeqIds(comments),
                    ok |-> r.ok]
        /\ UNCHANGED <<db_stories, now, db_feeds, cmd_queue, worker, replies, sent, worked>>
        /\ UNCHANGED <<client_vars, tree_vars, app_vars>>

\* a feed's id list is saved
CacheFeed ==
    \E feed_type \in {"top"}, ids \in {<<>>, <<2, 1>>} :
        /\ db_feeds' = save_feed(db_feeds, feed_type, ids, now)
        /\ last' = [op |-> "save_feed", feed |-> feed_type]
        /\ UNCHANGED <<db_stories, db_comments, now, cmd_queue, worker, replies, sent, worked>>
        /\ UNCHANGED <<client_vars, tree_vars, app_vars>>

\* the clock advances by a second, or by a second less than the TTL
Advance ==
    \E d \in {1, CACHE_TTL - 1} :
        /\ d = 1 => now % CACHE_TTL < MaxTime
        /\ now + d <= MaxDays * CACHE_TTL + MaxTime
        /\ now' = now + d
        /\ UNCHANGED <<db_stories, db_comments, last, worker_vars>>
        /\ UNCHANGED <<client_vars, tree_vars, app_vars>>

NextFresh == CacheStory \/ CacheComments \/ CacheFeed \/ Advance

SpecFresh == InitStories /\ [][NextFresh]_vars

----------------------------------------------------------------------------
(* comment_tree.rs: indices are 0-based as in the code; comments[i + 1] is *)
(* the comment at index i                                                  *)

MaxDepth == 2

RECURSIVE VisibleLoop(_, _, _, _, _)
\* the for loop of visible_indices
VisibleLoop(comments, expanded, i, parent_visible_at_depth, visible) ==
    IF i >= Len(comments)
    THEN visible
    ELSE LET comment == comments[i + 1]
             truncated == SubSeq(parent_visible_at_depth, 1,
                                 Min(Len(parent_visible_at_depth), comment.depth + 1))
             is_visible == IF comment.depth < Len(truncated)
                           THEN truncated[comment.depth + 1]
                           ELSE FALSE
             children_visible == comment.id \in expanded
         IN  IF is_visible
             THEN VisibleLoop(comments, expanded, i + 1,
                              IF Len(truncated) <= comment.depth + 1
                              THEN Append(truncated, children_visible)
                              ELSE [truncated EXCEPT ![comment.depth + 2] = children_visible],
                              Append(visible, i))
             ELSE VisibleLoop(comments, expanded, i + 1, truncated, visible)

\* visible_indices with a stack that only remembers the parent's flag
visible_indices_parent_only(comments, expanded) ==
    SelectSeq([i \in 1..Len(comments) |-> i - 1],
              LAMBDA i : \/ comments[i + 1].depth = 0
                         \/ \E j \in 0..(i - 1) :
                               /\ comments[j + 1].depth + 1 = comments[i + 1].depth
                               /\ \A k \in (j + 1)..(i - 1) :
                                     comments[k + 1].depth > comments[j + 1].depth
                               /\ comments[j + 1].id \in expanded)

\* CommentTree::visible_indices
visible_indices(comments, expanded) ==
    VisibleLoop(comments, expanded, 0, <<TRUE>>, <<>>)

\* CommentTree::visible_count
visible_count(comments, expanded) == Len(visible_indices(comments, expanded))

\* the index at which the loops of expand_subtree and collapse_subtree break
SubtreeEnd(comments, start_index) ==
    LET stops == {i \in (start_index + 1)..(Len(comments) - 1) :
                     comments[i + 1].depth <= comments[start_index + 1].depth}
    IN  IF stops = {} THEN Len(comments)
        ELSE CHOOSE i \in stops : \A j \in stops : i <= j

\* CommentTree::expand_subtree
expand_subtree(comments, expanded, start_index) ==
    IF start_index >= Len(comments)
    THEN expanded
    ELSE expanded \cup
         {comments[i + 1].id : i \in {j \in start_index..(SubtreeEnd(comments, start_index) - 1) :
                                          comments[j + 1].kids # <<>>}}

\* collapse_subtree that collapses the starting comment only
collapse_subtree_only_root(comments, expanded, start_index) ==
    IF start_index >= Len(comments)
    THEN expanded
    ELSE expanded \ {comments[start_index + 1].id}

\* CommentTree::collapse_subtree
collapse_subtree(comments, expanded, start_index) ==
    IF start_index >= Len(comments)
    THEN expanded
    ELSE expanded \
         {comments[i + 1].id : i \in start_index..(SubtreeEnd(comments, start_index) - 1)}

\* CommentTree::expand_all
expand_all(comments, expanded) ==
    expanded \cup {comments[i].id : i \in {j \in 1..Len(comments) : comments[j].kids # <<>>}}

\* CommentTree::find_toplevel_ancestor: Some(<<visible index, actual index>>)
find_toplevel_ancestor(comments, visible, visible_index) ==
    IF visible_index >= Len(visible) THEN None
    ELSE LET actual_idx == visible[visible_index + 1]
         IN  IF actual_idx >= Len(comments) THEN None
             ELSE IF comments[actual_idx + 1].depth = 0
                  THEN Some(<<visible_index, actual_idx>>)
                  ELSE LET tops == {i \in 0..(visible_index - 1) :
                                       comments[visible[i + 1] + 1].depth = 0}
                       IN  IF tops = {} THEN None
                           ELSE LET i == CHOOSE t \in tops : \A u \in tops : u <= t
                                IN  Some(<<i, visible[i + 1]>>)

\* find_parent_visible_index that answers the comment just above the selection
find_parent_visible_index_previous(comments, visible, visible_index) ==
    IF visible_index >= Len(visible) THEN None
    ELSE LET actual_idx == visible[visible_index + 1]
         IN  IF actual_idx >= Len(comments) THEN None
             ELSE IF comments[actual_idx + 1].depth = 0 \/ visible_index = 0 THEN None
                  ELSE Some(visible_index - 1)

\* CommentTree::find_parent_visible_index
find_parent_visible_index(comments, visible, visible_index) ==
    IF visible_index >= Len(visible) THEN None
    ELSE LET actual_idx == visible[visible_index + 1]
         IN  IF actual_idx >= Len(comments) THEN None
             ELSE LET current_depth == comments[actual_idx + 1].depth
                      above == {i \in 0..(visible_index - 1) :
                                   comments[visible[i + 1] + 1].depth < current_depth}
                  IN  IF current_depth = 0 \/ above = {} THEN None
                      ELSE Some(CHOOSE t \in above : \A u \in above : u <= t)

\* the replies of the comment at index i that the list holds: the comments
\* one level deeper that follow it before the list returns to its depth
ListedKids(depths, ids, i) ==
    LET kid_indices == {j \in (i + 1)..Len(depths) :
                           /\ depths[j] = depths[i] + 1
                           /\ \A k \in (i + 1)..j : depths[k] > depths[i]}
    IN  [n \in 1..Cardinality(kid_indices) |-> ids[Ascending(kid_indices)[n]]]

\* the comment lists handed to the tree: any depths, ids unique
TreeLists ==
    UNION {{[i \in 1..n |-> [id |-> n + 1 - i, depth |-> depths[i],
                            kids |-> ListedKids(depths, [j \in 1..n |-> n + 1 - j], i)]] :
               depths \in [1..n -> 0..MaxDepth]} : n \in 0..NumComments}

\* a set that keeps the expansion state
TreeSetKeepsExpanded ==
    /\ \E comments \in TreeLists : tree_comments' = comments
    /\ UNCHANGED <<tree_expanded, storage_vars, client_vars, app_vars>>

\* CommentTree::set
TreeSet ==
    /\ \E comments \in TreeLists : tree_comments' = comments
    /\ tree_expanded' = {}
    /\ UNCHANGED <<storage_vars, client_vars, app_vars>>

\* CommentTree::clear
TreeClear ==
    /\ tree_comments' = <<>>
    /\ tree_expanded' = {}
    /\ UNCHANGED <<storage_vars, client_vars, app_vars>>

\* CommentTree::expand
TreeExpand ==
    /\ \E id \in CommentIds : tree_expanded' = tree_expanded \cup {id}
    /\ UNCHANGED <<tree_comments, storage_vars, client_vars, app_vars>>

\* CommentTree::collapse
TreeCollapse ==
    /\ \E id \in CommentIds : tree_expanded' = tree_expanded \ {id}
    /\ UNCHANGED <<tree_comments, storage_vars, client_vars, app_vars>>

TreeExpandSubtree ==
    /\ \E start_index \in 0..NumComments :
          tree_expanded' = expand_subtree(tree_comments, tree_expanded, start_index)
    /\ UNCHANGED <<tree_comments, storage_vars, client_vars, app_vars>>

TreeCollapseSubtree ==
    /\ \E start_index \in 0..NumComments :
          tree_expanded' = collapse_subtree(tree_comments, tree_expanded, start_index)
    /\ UNCHANGED <<tree_comments, storage_vars, client_vars, app_vars>>

TreeExpandAll ==
    /\ tree_expanded' = expand_all(tree_comments, tree_expanded)
    /\ UNCHANGED <<tree_comments, storage_vars, client_vars, app_vars>>

\* CommentTree::collapse_all
TreeCollapseAll ==
    /\ tree_expanded' = {}
    /\ UNCHANGED <<tree_comments, storage_vars, client_vars, app_vars>>

\* CommentTree::new
InitTree ==
    /\ TreeIdle
    /\ db_stories = EmptyStories
    /\ db_comments = EmptyComments
    /\ now = 1
    /\ WorkerIdle
    /\ last = NoCommand
    /\ ClientIdle
    /\ AppNew

NextTree ==
    \/ TreeSet \/ TreeClear \/ TreeExpand \/ TreeCollapse
    \/ TreeExpandSubtree \/ TreeCollapseSubtree \/ TreeExpandAll \/ TreeCollapseAll

SpecTree == InitTree /\ [][NextTree]_vars

----------------------------------------------------------------------------
(* app.rs: the controller *)

MaxGen == 2
MaxInFlight == 2
MaxStories == 2

\* Feed::all()
FeedAll == <<"Favorites", "Top", "New", "Best", "Ask", "Show", "Jobs">>

Feeds == Range(FeedAll)

\* the terminal height the event loop reports
Heights == {24}

\* should_load_more: const THRESHOLD
THRESHOLD == 5

\* visible_story_capacity: const LAYOUT_OVERHEAD
LAYOUT_OVERHEAD == 4

\* visible_story_capacity: const STORY_HEIGHT
STORY_HEIGHT == 2

PREFETCH_MIN == 30

PREFETCH_MAX == 150

PAGE_STEP == 10

StoriesView == [kind |-> "Stories", story_id |-> 0, story_index |-> 0, story_scroll |-> 0]

\* the StorageError variants an operation on an open Storage returns; a
\* Migration error arises only in Storage::open, before any handle exists
TaskStorageErrors == {"Sqlite", "Channel"}

\* StorageError::is_fatal
storage_is_fatal(se) == se = "Migration"

\* impl From<StorageError> for ApiError: the variant is kept only as text
api_error_from_storage(se) == "Storage"

ApiErrors == {"Network"} \cup {api_error_from_storage(se) : se \in TaskStorageErrors}

\* ApiError::is_fatal
is_fatal(e) == e = "Storage"

\* ApiError::user_message
user_message(e) == IF e = "Network" THEN "Network error: connection failed"
                   ELSE "Storage error"

\* the pages a stories fetch may return: stories of distinct ids
StoryPages ==
    {page \in UNION {[1..n -> StoryIds] : n \in 0..NumStories} :
        \A i, j \in 1..Len(page) : i # j => page[i] # page[j]}

\* what a spawned stories fetch sends back: a local (favorites) fetch can
\* only fail in storage
StoriesOutcomes(task) ==
    {[ok |-> TRUE, page |-> page, err |-> "none"] : page \in StoryPages}
    \cup {[ok |-> FALSE, page |-> <<>>, err |-> e] :
             e \in IF task.local THEN {"Storage"} ELSE ApiErrors}

\* the comments of a story as the controller sees them
Thread(story_id) ==
    IF story_id = 1
    THEN <<[id |-> 1, depth |-> 0, kids |-> <<2>>], [id |-> 2, depth |-> 1, kids |-> <<>>]>>
    ELSE <<[id |-> 2, depth |-> 0, kids |-> <<>>]>>

CommentsOutcomes(task) ==
    {[ok |-> TRUE, comments |-> c, err |-> "none"] : c \in {<<>>, Thread(task.story_id)}}
    \cup {[ok |-> FALSE, comments |-> <<>>, err |-> e] : e \in ApiErrors}

\* the stories of a page as the client returns them, unread
FetchedStories(page) ==
    [i \in 1..Len(page) |-> [id |-> page[i], read_at |-> None, favorited_at |-> None]]

\* the stories of a result: those of its page, with the favorites the fetch
\* found stored when it reports them
ResultStories(outcome) ==
    [i \in 1..Len(outcome.page) |->
        [FetchedStories(outcome.page)[i] EXCEPT
            !.favorited_at = IF "favorited" \in DOMAIN outcome
                                /\ outcome.page[i] \in DOMAIN outcome.favorited
                             THEN outcome.favorited[outcome.page[i]]
                             ELSE None]]

RemoveAt(seq, i) == SubSeq(seq, 1, i - 1) \o SubSeq(seq, i + 1, Len(seq))

\* the event loop is past its first draw: main has called load_stories, the
\* terminal height has been reported and should_quit is unset
Running == ~should_quit /\ generation > 0 /\ viewport_height # None

\* the model's caps on the counters and queues the code leaves unbounded
Bounded ==
    /\ generation' <= MaxGen
    /\ Len(tasks') <= MaxInFlight
    /\ Len(stories') <= MaxStories
    /\ current_page' <= MaxPage

\* visible_story_capacity
visible_story_capacity(height) ==
    IF height = None THEN 0
    ELSE (IF Unwrap(height) >= LAYOUT_OVERHEAD THEN Unwrap(height) - LAYOUT_OVERHEAD ELSE 0)
             \div STORY_HEIGHT

\* prefetch_target
prefetch_target(height) ==
    LET doubled == visible_story_capacity(height) * 2
    IN  IF doubled < PREFETCH_MIN THEN PREFETCH_MIN
        ELSE IF doubled > PREFETCH_MAX THEN PREFETCH_MAX ELSE doubled

\* should_load_more, on the controller's fields as they stand when it is called
should_load_more(v, ld, lm, hm, st, sel) ==
    /\ v.kind = "Stories"
    /\ ~ld
    /\ ~lm
    /\ hm
    /\ st # <<>>
    /\ sel + THRESHOLD >= Len(st)

\* a fill that goes on at the target itself
should_fill_viewport_inclusive(v, ld, lm, hm, st, height) ==
    /\ v.kind = "Stories"
    /\ ~ld
    /\ ~lm
    /\ hm
    /\ st # <<>>
    /\ Len(st) <= prefetch_target(height)

\* should_fill_viewport
should_fill_viewport(v, ld, lm, hm, st, height) ==
    /\ v.kind = "Stories"
    /\ ~ld
    /\ ~lm
    /\ hm
    /\ st # <<>>
    /\ Len(st) < prefetch_target(height)

StoriesTask(gen, is_more, is_local) ==
    [kind |-> IF is_more THEN "MoreStories" ELSE "Stories",
     generation |-> gen, story_id |-> 0, local |-> is_local]

CommentsTask(story_id, force_refresh) ==
    [kind |-> "Comments", generation |-> 0, story_id |-> story_id, local |-> FALSE,
     force |-> force_refresh]

\* load_more: [loading_more, tasks] after the call
load_more(lm, hm, queue, gen) ==
    IF lm \/ ~hm
    THEN [loading_more |-> lm, tasks |-> queue]
    ELSE [loading_more |-> TRUE, tasks |-> Append(queue, StoriesTask(gen, TRUE, FALSE))]

\* a result is stale when it was spawned under another generation
is_stale_never(r) == FALSE

is_stale(r) == r.generation # generation

\* a comments result is current in any comments view
is_current_any_story(r) == view.kind = "Comments"

\* handle_comments_result: is_current
is_current(r) == view.kind = "Comments" /\ view.story_id = r.story_id

\* an increment that only happens on the first load
next_generation_once(g) == IF g = 0 THEN 1 ELSE g

\* self.generation += 1
next_generation(g) == g + 1

\* item_count
item_count ==
    IF view.kind = "Stories" THEN Len(stories)
    ELSE visible_count(tree_comments, tree_expanded)

\* selected_comment
selected_comment ==
    LET visible == visible_indices(tree_comments, tree_expanded)
    IN  IF selected_index < Len(visible) /\ visible[selected_index + 1] < Len(tree_comments)
        THEN Some(tree_comments[visible[selected_index + 1] + 1])
        ELSE None

\* App::mark_story_read on the local list: the first story with the id
mark_read_local(st, id, t) ==
    LET hits == {i \in 1..Len(st) : st[i].id = id}
    IN  IF hits = {} THEN st
        ELSE LET i == CHOOSE h \in hits : \A g \in hits : h <= g
             IN  IF st[i].read_at = None THEN [st EXCEPT ![i].read_at = Some(t)] ELSE st

\* load_stories, with the feed as it stands when it is called
load_stories(f) ==
    /\ generation' = next_generation(generation)
    /\ loading' = TRUE
    /\ error' = None
    /\ stories' = <<>>
    /\ current_page' = 0
    /\ has_more' = (f # "Favorites")
    /\ loading_more' = FALSE
    /\ tasks' = Append(tasks, StoriesTask(generation', FALSE, f = "Favorites"))

\* main: app.load_stories() before the event loop
Start ==
    /\ generation = 0
    /\ ~should_quit
    /\ load_stories(feed)
    /\ last' = NoCommand
    /\ UNCHANGED <<view, feed, selected_index, scroll_offset, should_quit, viewport_height>>
    /\ UNCHANGED <<db_stories, db_comments, now, worker_vars, client_vars, tree_vars>>
    /\ Bounded

\* handle_stories_result
handle_stories_result(i, outcome) ==
    /\ Running
    /\ tasks[i].kind = "Stories"
    /\ LET r == tasks[i]
           rest == RemoveAt(tasks, i)
       IN  IF is_stale(r)
           THEN /\ tasks' = rest
                /\ last' = [op |-> "handle_stories_result", discarded |-> TRUE, ok |-> outcome.ok]
                /\ UNCHANGED <<stories, loading, selected_index, scroll_offset, loading_more,
                               error, should_quit>>
           ELSE /\ last' = [op |-> "handle_stories_result", discarded |-> FALSE, ok |-> outcome.ok]
                /\ IF outcome.ok
                   THEN LET fetched == ResultStories(outcome)
                            fill == should_fill_viewport(view, FALSE, loading_more, has_more,
                                                         fetched, viewport_height)
                            more == IF fill THEN load_more(loading_more, has_more, rest, generation)
                                    ELSE [loading_more |-> loading_more, tasks |-> rest]
                        IN  /\ stories' = fetched
                            /\ loading' = FALSE
                            /\ selected_index' = 0
                            /\ scroll_offset' = 0
                            /\ loading_more' = more.loading_more
                            /\ tasks' = more.tasks
                            /\ UNCHANGED <<error, should_quit>>
                   ELSE /\ error' = Some(user_message(outcome.err))
                        /\ loading' = FALSE
                        /\ should_quit' = (should_quit \/ is_fatal(outcome.err))
                        /\ tasks' = rest
                        /\ UNCHANGED <<stories, selected_index, scroll_offset, loading_more>>
    /\ UNCHANGED <<view, feed, current_page, has_more, generation, viewport_height>>
    /\ UNCHANGED <<db_stories, db_comments, now, worker_vars, client_vars, tree_vars>>

\* handle_stories_result, within the caps of the model
HandleStoriesResult(i, outcome) == handle_stories_result(i, outcome) /\ Bounded

\* handle_more_stories_result
handle_more_stories_result(i, outcome) ==
    /\ Running
    /\ tasks[i].kind = "MoreStories"
    /\ LET r == tasks[i]
           rest == RemoveAt(tasks, i)
       IN  IF is_stale(r)
           THEN /\ tasks' = rest
                /\ last' = [op |-> "handle_more_stories_result", discarded |-> TRUE, ok |-> outcome.ok]
                /\ UNCHANGED <<stories, current_page, has_more, loading_more, error,
                               should_quit>>
           ELSE /\ last' = [op |-> "handle_more_stories_result", discarded |-> FALSE, ok |-> outcome.ok]
                /\ IF outcome.ok
                   THEN LET fetched == ResultStories(outcome)
                            extended == IF fetched = <<>> THEN stories ELSE stories \o fetched
                            hm == IF fetched = <<>> THEN FALSE ELSE has_more
                            fill == should_fill_viewport(view, loading, FALSE, hm, extended,
                                                         viewport_height)
                            more == IF fill THEN load_more(FALSE, hm, rest, generation)
                                    ELSE [loading_more |-> FALSE, tasks |-> rest]
                        IN  /\ stories' = extended
                            /\ has_more' = hm
                            /\ current_page' = IF fetched = <<>> THEN current_page
                                               ELSE current_page + 1
                            /\ loading_more' = more.loading_more
                            /\ tasks' = more.tasks
                            /\ UNCHANGED <<error, should_quit>>
                   ELSE /\ error' = Some(user_message(outcome.err))
                        /\ loading_more' = FALSE
                        /\ should_quit' = (should_quit \/ is_fatal(outcome.err))
                        /\ tasks' = rest
                        /\ UNCHANGED <<stories, current_page, has_more>>
    /\ UNCHANGED <<view, feed, selected_index, scroll_offset, loading, generation,
                   viewport_height>>
    /\ UNCHANGED <<db_stories, db_comments, now, worker_vars, client_vars, tree_vars>>

\* handle_more_stories_result, within the caps of the model
HandleMoreStoriesResult(i, outcome) == handle_more_stories_result(i, outcome) /\ Bounded

\* handle_comments_result
HandleCommentsResult(i, outcome) ==
    /\ Running
    /\ tasks[i].kind = "Comments"
    /\ LET r == tasks[i]
           rest == RemoveAt(tasks, i)
       IN  /\ tasks' = rest
           /\ IF ~is_current(r)
              THEN /\ last' = [op |-> "handle_comments_result", discarded |-> TRUE, ok |-> outcome.ok]
                   /\ UNCHANGED <<tree_comments, tree_expanded, loading, error, should_quit>>
              ELSE /\ last' = [op |-> "handle_comments_result", discarded |-> FALSE, ok |-> outcome.ok]
                   /\ IF outcome.ok
                      THEN /\ tree_comments' = outcome.comments
                           /\ tree_expanded' = {}
                           /\ loading' = FALSE
                           /\ UNCHANGED <<error, should_quit>>
                      ELSE /\ error' = Some(user_message(outcome.err))
                           /\ loading' = FALSE
                           /\ should_quit' = (should_quit \/ is_fatal(outcome.err))
                           /\ UNCHANGED <<tree_comments, tree_expanded>>
    /\ UNCHANGED <<view, feed, stories, selected_index, scroll_offset, loading_more,
                   current_page, has_more, generation, viewport_height>>
    /\ UNCHANGED <<db_stories, db_comments, now, worker_vars, client_vars>>
    /\ Bounded

\* main: result_rx.recv() hands a result to handle_async_result
HandleAsyncResult ==
    \E i \in 1..Len(tasks) :
        \/ \E outcome \in StoriesOutcomes(tasks[i]) : HandleStoriesResult(i, outcome)
        \/ \E outcome \in StoriesOutcomes(tasks[i]) : HandleMoreStoriesResult(i, outcome)
        \/ \E outcome \in CommentsOutcomes(tasks[i]) : HandleCommentsResult(i, outcome)

\* update(Message::SelectNext), SelectLast and PageDown: move, then load
\* more near the end of the list
SelectForward(target) ==
    /\ Running
    /\ error' = None
    /\ selected_index' = target
    /\ LET more == IF should_load_more(view, loading, loading_more, has_more, stories, target)
                   THEN load_more(loading_more, has_more, tasks, generation)
                   ELSE [loading_more |-> loading_more, tasks |-> tasks]
       IN  /\ loading_more' = more.loading_more
           /\ tasks' = more.tasks
    /\ last' = NoCommand
    /\ UNCHANGED <<view, feed, stories, scroll_offset, loading, current_page, has_more,
                   should_quit, generation, viewport_height>>
    /\ UNCHANGED <<db_stories, db_comments, now, worker_vars, client_vars, tree_vars>>
    /\ Bounded

SelectNext ==
    SelectForward(IF item_count > 0 /\ selected_index < item_count - 1
                  THEN selected_index + 1 ELSE selected_index)

SelectLast ==
    SelectForward(IF item_count > 0 THEN item_count - 1 ELSE selected_index)

PageDown ==
    SelectForward(IF item_count > 0 THEN Min(selected_index + PAGE_STEP, item_count - 1)
                  ELSE selected_index)

\* update(Message::SelectPrev), SelectFirst and PageUp
SelectBackward(target, scroll) ==
    /\ Running
    /\ error' = None
    /\ selected_index' = target
    /\ scroll_offset' = scroll
    /\ last' = NoCommand
    /\ UNCHANGED <<view, feed, stories, loading, loading_more, current_page, has_more,
                   should_quit, generation, viewport_height, tasks>>
    /\ UNCHANGED <<db_stories, db_comments, now, worker_vars, client_vars, tree_vars>>

SelectPrev ==
    SelectBackward(IF selected_index > 0 THEN selected_index - 1 ELSE selected_index,
                   scroll_offset)

SelectFirst == SelectBackward(0, 0)

PageUp ==
    SelectBackward(IF selected_index >= PAGE_STEP THEN selected_index - PAGE_STEP ELSE 0,
                   scroll_offset)

\* update(Message::OpenComments)
OpenComments ==
    /\ Running
    /\ error' = None
    /\ IF view.kind = "Stories" /\ selected_index < Len(stories)
       THEN LET story == stories[selected_index + 1]
            IN  /\ stories' = mark_read_local(stories, story.id, now)
                /\ view' = [kind |-> "Comments", story_id |-> story.id,
                            story_index |-> selected_index, story_scroll |-> scroll_offset]
                /\ loading' = TRUE
                /\ tree_comments' = <<>>
                /\ tree_expanded' = {}
                /\ selected_index' = 0
                /\ scroll_offset' = 0
                /\ tasks' = Append(tasks, CommentsTask(story.id, FALSE))
       ELSE UNCHANGED <<stories, view, loading, tree_comments, tree_expanded,
                        selected_index, scroll_offset, tasks>>
    /\ last' = NoCommand
    /\ UNCHANGED <<feed, loading_more, current_page, has_more, should_quit, generation,
                   viewport_height>>
    /\ UNCHANGED <<db_stories, db_comments, now, worker_vars, client_vars>>
    /\ Bounded

\* a go_back that leaves the selection where the comments had it
go_back_keeps_selection ==
    IF view.kind = "Comments"
    THEN [view |-> StoriesView, selected_index |-> selected_index,
          scroll_offset |-> scroll_offset, comments |-> <<>>, expanded |-> {}]
    ELSE [view |-> view, selected_index |-> selected_index, scroll_offset |-> scroll_offset,
          comments |-> tree_comments, expanded |-> tree_expanded]

\* go_back: [view, selected_index, scroll_offset, comments, expanded] after it
go_back ==
    IF view.kind = "Comments"
    THEN [view |-> StoriesView, selected_index |-> view.story_index,
          scroll_offset |-> view.story_scroll, comments |-> <<>>, expanded |-> {}]
    ELSE [view |-> view, selected_index |-> selected_index, scroll_offset |-> scroll_offset,
          comments |-> tree_comments, expanded |-> tree_expanded]

\* update(Message::Back)
Back ==
    /\ Running
    /\ error' = None
    /\ view' = go_back.view
    /\ selected_index' = go_back.selected_index
    /\ scroll_offset' = go_back.scroll_offset
    /\ tree_comments' = go_back.comments
    /\ tree_expanded' = go_back.expanded
    /\ last' = [op |-> "back", from |-> view.kind]
    /\ UNCHANGED <<feed, stories, loading, loading_more, current_page, has_more, should_quit,
                   generation, viewport_height, tasks>>
    /\ UNCHANGED <<db_stories, db_comments, now, worker_vars, client_vars>>

\* update(Message::Refresh)
Refresh ==
    /\ Running
    /\ IF view.kind = "Stories"
       THEN IF feed = "Favorites"
            THEN UNCHANGED <<generation, loading, current_page, has_more, tasks>>
            ELSE /\ generation' = next_generation(generation)
                 /\ loading' = TRUE
                 /\ current_page' = 0
                 /\ has_more' = TRUE
                 /\ tasks' = Append(tasks, StoriesTask(generation', FALSE, FALSE))
       ELSE IF \E i \in 1..Len(stories) : stories[i].id = view.story_id
            THEN /\ loading' = TRUE
                 /\ tasks' = Append(tasks, CommentsTask(view.story_id, TRUE))
                 /\ UNCHANGED <<generation, current_page, has_more>>
            ELSE UNCHANGED <<generation, loading, current_page, has_more, tasks>>
    /\ error' = None
    /\ last' = [op |-> "refresh"]
    /\ UNCHANGED <<view, feed, stories, selected_index, scroll_offset, loading_more,
                   should_quit, viewport_height>>
    /\ UNCHANGED <<db_stories, db_comments, now, worker_vars, client_vars, tree_vars>>
    /\ Bounded

\* switch_feed
switch_feed(f) ==
    /\ Running
    /\ IF feed # f
       THEN /\ feed' = f
            /\ view' = StoriesView
            /\ load_stories(f)
            /\ last' = NoCommand
       ELSE /\ error' = None
            /\ last' = NoCommand
            /\ UNCHANGED <<feed, view, generation, loading, stories, current_page, has_more,
                           loading_more, tasks>>
    /\ UNCHANGED <<selected_index, scroll_offset, should_quit, viewport_height>>
    /\ UNCHANGED <<db_stories, db_comments, now, worker_vars, client_vars, tree_vars>>
    /\ Bounded

\* update(Message::SwitchFeed(feed))
SwitchFeed == \E f \in Feeds : switch_feed(f)

\* cycle_feed
cycle_feed(direction) ==
    LET current_idx == CHOOSE i \in 1..Len(FeedAll) : FeedAll[i] = feed
        new_idx == ((current_idx - 1 + direction) % Len(FeedAll)) + 1
    IN  switch_feed(FeedAll[new_idx])

\* update(Message::NextFeed)
NextFeed == cycle_feed(1)

\* update(Message::PrevFeed)
PrevFeed == cycle_feed(-1)

\* update(Message::Quit)
Quit ==
    /\ Running
    /\ error' = None
    /\ should_quit' = TRUE
    /\ last' = NoCommand
    /\ UNCHANGED <<view, feed, stories, selected_index, scroll_offset, loading, loading_more,
                   current_page, has_more, generation, viewport_height, tasks>>
    /\ UNCHANGED <<db_stories, db_comments, now, worker_vars, client_vars, tree_vars>>

\* update(Message::UpdateViewportHeight(height))
update_viewport_height(heights) ==
    /\ ~should_quit
    /\ generation > 0
    /\ error' = None
    /\ \E height \in heights :
          /\ viewport_height # Some(height)
          /\ viewport_height' = Some(height)
          /\ LET grew == viewport_height = None \/ height > Unwrap(viewport_height)
                 more == IF grew /\ should_fill_viewport(view, loading, loading_more, has_more,
                                                         stories, Some(height))
                         THEN load_more(loading_more, has_more, tasks, generation)
                         ELSE [loading_more |-> loading_more, tasks |-> tasks]
             IN  /\ loading_more' = more.loading_more
                 /\ tasks' = more.tasks
    /\ last' = NoCommand
    /\ UNCHANGED <<view, feed, stories, selected_index, scroll_offset, loading, current_page,
                   has_more, should_quit, generation>>
    /\ UNCHANGED <<db_stories, db_comments, now, worker_vars, client_vars, tree_vars>>

\* the event loop reports the terminal height, within the caps of the model
UpdateViewportHeight == update_viewport_height(Heights) /\ Bounded

\* a message that acts on the comment tree: the view, the selection and the
\* tree after it
comment_message(after) ==
    /\ Running
    /\ error' = None
    /\ view' = after.view
    /\ selected_index' = after.selected_index
    /\ scroll_offset' = after.scroll_offset
    /\ tree_comments' = after.comments
    /\ tree_expanded' = after.expanded
    /\ UNCHANGED <<feed, stories, loading, loading_more, current_page, has_more, should_quit,
                   generation, viewport_height, tasks>>
    /\ UNCHANGED <<db_stories, db_comments, now, worker_vars, client_vars>>

CommentMessage(after) == comment_message(after) /\ last' = NoCommand

Unmoved ==
    [view |-> view, selected_index |-> selected_index, scroll_offset |-> scroll_offset,
     comments |-> tree_comments, expanded |-> tree_expanded]

\* App::expand_comment
expand_comment ==
    IF view.kind = "Comments" /\ selected_comment # None
       /\ Unwrap(selected_comment).kids # <<>>
    THEN IF Unwrap(selected_comment).id \in tree_expanded
         THEN [Unmoved EXCEPT !.selected_index = selected_index + 1]
         ELSE [Unmoved EXCEPT !.expanded = tree_expanded \cup {Unwrap(selected_comment).id}]
    ELSE Unmoved

\* update(Message::ExpandComment)
ExpandComment == CommentMessage(expand_comment)

\* App::collapse_comment
collapse_comment ==
    IF view.kind # "Comments" THEN Unmoved
    ELSE IF selected_comment = None THEN go_back
    ELSE LET comment == Unwrap(selected_comment)
             parent_idx == find_parent_visible_index(
                               tree_comments,
                               visible_indices(tree_comments, tree_expanded),
                               selected_index)
         IN  IF comment.kids # <<>> /\ comment.id \in tree_expanded
             THEN [Unmoved EXCEPT !.expanded = tree_expanded \ {comment.id}]
             ELSE IF comment.depth = 0 THEN go_back
             ELSE IF parent_idx # None
                  THEN [Unmoved EXCEPT !.selected_index = Unwrap(parent_idx)]
                  ELSE Unmoved

\* update(Message::CollapseComment)
CollapseComment == CommentMessage(collapse_comment)

\* App::go_to_parent
go_to_parent ==
    LET parent_idx == find_parent_visible_index(
                          tree_comments, visible_indices(tree_comments, tree_expanded),
                          selected_index)
    IN  IF view.kind = "Comments" /\ parent_idx # None
        THEN [Unmoved EXCEPT !.selected_index = Unwrap(parent_idx)]
        ELSE Unmoved

\* update(Message::GoToParent)
GoToParent == CommentMessage(go_to_parent)

\* App::expand_subtree
app_expand_subtree ==
    LET visible == visible_indices(tree_comments, tree_expanded)
    IN  IF view.kind = "Comments" /\ selected_index < Len(visible)
        THEN [Unmoved EXCEPT !.expanded =
                 expand_subtree(tree_comments, tree_expanded, visible[selected_index + 1])]
        ELSE Unmoved

\* update(Message::ExpandSubtree)
ExpandSubtree == CommentMessage(app_expand_subtree)

\* App::collapse_subtree
app_collapse_subtree ==
    LET visible == visible_indices(tree_comments, tree_expanded)
        ancestor == find_toplevel_ancestor(tree_comments, visible, selected_index)
    IN  IF view.kind = "Comments" /\ ancestor # None
        THEN [Unmoved EXCEPT
                 !.expanded = collapse_subtree(tree_comments, tree_expanded,
                                               Unwrap(ancestor)[2]),
                 !.selected_index = Unwrap(ancestor)[1]]
        ELSE Unmoved

\* update(Message::CollapseSubtree)
CollapseSubtree == CommentMessage(app_collapse_subtree)

\* App::expand_thread
expand_thread ==
    IF view.kind = "Comments"
    THEN [Unmoved EXCEPT !.expanded = expand_all(tree_comments, tree_expanded)]
    ELSE Unmoved

\* update(Message::ExpandThread)
ExpandThread == CommentMessage(expand_thread)

\* App::collapse_thread
collapse_thread ==
    IF view.kind = "Comments" THEN [Unmoved EXCEPT !.expanded = {}] ELSE Unmoved

\* update(Message::CollapseThread)
CollapseThread == CommentMessage(collapse_thread)

\* The controller as App::new builds it; the stories the feeds serve have
\* been stored by earlier fetches
InitApp ==
    /\ AppNew
    /\ TreeIdle
    /\ ClientIdle
    /\ db_stories = [id \in StoryIds |-> Some(StorableStory(id, 1, 1, None, None))]
    /\ db_comments = EmptyComments
    /\ now = 1
    /\ WorkerIdle
    /\ last = NoCommand

NextApp ==
    \/ Start \/ HandleAsyncResult
    \/ SelectNext \/ SelectLast \/ PageDown \/ SelectPrev \/ SelectFirst \/ PageUp
    \/ OpenComments \/ Back \/ Refresh \/ SwitchFeed \/ NextFeed \/ PrevFeed \/ Quit
    \/ UpdateViewportHeight
    \/ ExpandComment \/ CollapseComment \/ GoToParent \/ ExpandSubtree \/ CollapseSubtree
    \/ ExpandThread \/ CollapseThread

SpecApp == InitApp /\ [][NextApp]_vars

----------------------------------------------------------------------------
(* app.rs: the prefetch, on pages of the size the client returns *)

\* the terminal heights of the fill: 24 rows, and the 50 rows of the tests
FillHeights == Heights \cup {50}

\* the number of stories a successful fetch of a page may return: none, one
\* (the other items failed or have no title), a full page
PageLens == {0, 1, PAGE_SIZE}

\* a successful result of k stories that follow the stories held
NextPage(k) ==
    [ok |-> TRUE, page |-> [j \in 1..k |-> Len(stories) + j], err |-> "none"]

\* the channel hands over a successful stories result
FillResult ==
    \E i \in 1..Len(tasks), k \in PageLens :
        \/ handle_stories_result(i, NextPage(k))
        \/ handle_more_stories_result(i, NextPage(k))

\* the event loop reports the terminal height
ReportHeight == update_viewport_height(FillHeights)

NextFill == Start \/ FillResult \/ ReportHeight

SpecFill == InitApp /\ [][NextFill]_vars

\* the event loop receives every result the channel holds
SpecFillLive == SpecFill /\ WF_vars(FillResult)

----------------------------------------------------------------------------
(* Claims about the storage queries *)

NonFlagFieldsEqual(a, b) ==
    /\ a.id = b.id /\ a.title = b.title /\ a.url = b.url /\ a.score = b.score
    /\ a.by = b.by /\ a.time = b.time /\ a.descendants = b.descendants
    /\ a.kids = b.kids /\ a.fetched_at = b.fetched_at

\* C6: save_story never clears a user flag: when the stored row has a
\* non-null read_at (favorited_at), the row stored after save_story keeps
\* that value whatever the incoming story carries, every other field takes
\* the incoming value, and the reply is the stored row.
C6_SaveStoryKeepsFlags ==
    (last.op = "save_story" /\ last.before # None) =>
        LET old == Unwrap(last.before)
            row == Unwrap(db_stories[last.story.id])
        IN  /\ db_stories[last.story.id] # None
            /\ old.read_at # None => row.read_at = old.read_at
            /\ old.favorited_at # None => row.favorited_at = old.favorited_at
            /\ old.read_at = None => row.read_at = last.story.read_at
            /\ old.favorited_at = None => row.favorited_at = last.story.favorited_at
            /\ NonFlagFieldsEqual(row, last.story)
            /\ last.reply = row

\* a stored story with both flags set is refreshed by a later fetch whose
\* story carries no flags
C6_Witness ==
    /\ last.op = "save_story"
    /\ last.before # None
    /\ Unwrap(last.before).read_at # None
    /\ Unwrap(last.before).favorited_at # None
    /\ last.story.read_at = None
    /\ last.story.favorited_at = None
    /\ last.story.fetched_at # Unwrap(last.before).fetched_at

\* the outcome r of save_comments(story_id, comments) on table tbl meets the
\* purge contract, but a row of another story whose id is in the batch moves to
\* story_id
PurgeExactButMoved(tbl, r, story_id, comments) ==
    /\ StoredIds(r.tbl, story_id) = SeqIds(comments)
    /\ \A other \in StoryIds \ {story_id} :
          get_comments(r.tbl, other) =
              {c \in get_comments(tbl, other) : c.id \notin SeqIds(comments)}

\* C7 as claimed: after a successful save_comments(S, C) the rows of S are
\* exactly the ids of C and the rows of every other story are unchanged.
C7_Original ==
    (last.op = "save_comments" /\ last.ok) =>
        /\ StoredIds(db_comments, last.story_id) = last.ids
        /\ last.others_unchanged

\* C7 amended: after a successful save_comments(S, C) whose comments carry
\* story_id S, the rows of S are exactly the ids of C (orphans of S are
\* deleted, an empty C deletes every row of S), and the rows of every other
\* story are unchanged except those whose id is in C, which now belong to S.
C7_SaveCommentsPurges ==
    \A story_id \in StoryIds :
      \A comments \in Batches(IncomingComments(story_id)) :
        LET r == save_comments(db_comments, db_stories, story_id, comments)
        IN  r.ok => PurgeExactButMoved(db_comments, r, story_id, comments)

\* a save that purged an orphan of its story and left a row of another
\* story in place
C7_Witness ==
    /\ last.op = "save_comments"
    /\ last.ok
    /\ last.purged # {}
    /\ last.ids # {}
    /\ \E other \in StoryIds \ {last.story_id} : StoredIds(db_comments, other) # {}

\* C8: save_comments is idempotent: performing save_comments(S, C) a second
\* time gives the same result and leaves the table as the first left it.
C8_SaveCommentsIdempotent ==
    \A story_id \in StoryIds :
      \A comments \in Batches(IncomingComments(story_id)) :
        LET r1 == save_comments(db_comments, db_stories, story_id, comments)
            r2 == save_comments(r1.tbl, db_stories, story_id, comments)
        IN  r2 = r1

\* a successful non-empty save that found the table already holding exactly
\* what it writes, a favorite included: the second of two equal saves
C8_Witness ==
    /\ last.op = "save_comments"
    /\ last.ok
    /\ last.ids # {}
    /\ ~last.changed
    /\ \E id \in last.ids : Unwrap(db_comments[id]).favorited_at # None

----------------------------------------------------------------------------
(* Claims about the comment fetch *)

\* what the claim compares of a comment sequence: ids in order, depths, kids
ThreadShape(comments) ==
    [i \in 1..Len(comments) |->
        [id |-> comments[i].id, depth |-> comments[i].depth, kids |-> comments[i].kids]]

NetworkResultStored ==
    /\ pc = "done"
    /\ source \in {"algolia", "firebase"}
    /\ result # None
    /\ Unwrap(result).ok

\* C4: cached path equivalence: once the network path of fetch_comments_flat
\* has returned its comments and written them through, reloading the story's
\* rows with get_comments (in whatever order they come back) and reordering
\* them with order_cached_comments under the story's root kids gives the same
\* ids in the same order with the same depths and kids.
C4_CachedPathEquivalence ==
    NetworkResultStored =>
        \A rows \in Orders(get_comments(db_comments, fetch_story.id)) :
            ThreadShape(order_cached_comments(CachedComments(rows), fetch_story.kids))
                = ThreadShape(Unwrap(result).comments)

BuiltByBuildCommentTree ==
    /\ pc \in {"save", "done"}
    /\ source \in {"firebase", "direct"}

\* C9: in the output of build_comment_tree every comment's kids are the
\* fetched item's kids restricted, in their original order, to the ids that
\* were never attempted or are present in the item map; no id that was
\* attempted and is absent remains as a child pointer.
C9_KidsFilter ==
    BuiltByBuildCommentTree =>
        \A i \in 1..Len(fresh) :
            LET original == MapGet(fetch_items, fresh[i].id).kids
                keep(k) == k \notin fetch_attempted \/ k \in MapKeys(fetch_items)
            IN  /\ fresh[i].kids = SelectSeq(original, keep)
                /\ \A k \in Range(fresh[i].kids) :
                      ~(k \in fetch_attempted /\ k \notin MapKeys(fetch_items))

\* a built comment lost an attempted-and-absent kid and kept a kid that was
\* never attempted
C9_Witness ==
    /\ BuiltByBuildCommentTree
    /\ \E i \in 1..Len(fresh) :
          LET original == MapGet(fetch_items, fresh[i].id).kids
          IN  /\ \E k \in Range(original) :
                    k \in fetch_attempted /\ k \notin MapKeys(fetch_items)
                       /\ k \notin Range(fresh[i].kids)
              /\ \E k \in Range(original) :
                    k \notin fetch_attempted /\ k \notin MapKeys(fetch_items)
                       /\ k \in Range(fresh[i].kids)

\* C10: the DFS output is deterministic: build_comment_tree gives the same
\* sequence whatever order the item map holds its entries in, and
\* order_cached_comments gives the same sequence whatever order the stored
\* rows are returned in.
C10_OrderIndependent ==
    /\ BuiltByBuildCommentTree =>
          \A map \in Orders(Range(fetch_items)) :
              build_comment_tree(map, fetch_attempted, fetch_story.kids) = fresh
    /\ \A rows1, rows2 \in Orders(get_comments(db_comments, fetch_story.id)) :
          order_cached_comments(CachedComments(rows1), fetch_story.kids)
              = order_cached_comments(CachedComments(rows2), fetch_story.kids)

\* a crawl fetched several items into the map and several rows are stored
C10_Witness ==
    /\ pc = "done"
    /\ source = "firebase"
    /\ Len(fetch_items) >= 2
    /\ Len(fresh) >= 2
    /\ Cardinality(get_comments(db_comments, fetch_story.id)) >= 2

\* the fallback crawl had requests to make and every one of them failed
EveryItemRequestFailed ==
    /\ fetch_story.kids # <<>>
    /\ \A id \in Range(fetch_story.kids) : upstream[id].status = "missing"

\* C11: fetch_comments_flat tries the primary endpoint first and crawls when
\* it fails; once the primary has failed, the call returns an error exactly
\* when the fallback fails too: when every per-item request of the crawl
\* failed or the write-through after it failed.
C11_ErrorIffFallbackFails ==
    (pc = "done" /\ source = "firebase") =>
        (~Unwrap(result).ok <=> (EveryItemRequestFailed \/ ~last.ok))

----------------------------------------------------------------------------
(* Claims about the user flags *)

\* this step is a toggle of the row the step before toggled
SecondToggle(op) ==
    /\ last.op = op
    /\ last'.op = op
    /\ last'.id = last.id
    /\ last' # last

\* favorited_at of every stored row is null or a positive timestamp
FavoritedAtNullOrPositive ==
    /\ \A id \in StoryIds : db_stories[id] # None =>
          \A t \in Unwrap(db_stories[id]).favorited_at : t > 0
    /\ \A id \in CommentIds : db_comments[id] # None =>
          \A t \in Unwrap(db_comments[id]).favorited_at : t > 0

\* C16 as stated: toggling a stored story's favorite twice restores the
\* value favorited_at had before the first toggle.
C16_Original ==
    [][(SecondToggle("toggle_story_favorite") /\ db_stories[last.id] # None)
        => Unwrap(db_stories'[last.id]).favorited_at = Unwrap(last.before).favorited_at]_vars

\* C16: toggling a stored story's or a stored comment's favorite twice
\* restores whether it is a favorite (a favorite comes back with the time of
\* the second toggle); every other field of the row is as before, and
\* favorited_at is always null or a positive timestamp.
C16_ToggleTwiceRestoresStatus ==
    /\ []FavoritedAtNullOrPositive
    /\ [][(SecondToggle("toggle_story_favorite") /\ db_stories[last.id] # None)
            => /\ (Unwrap(db_stories'[last.id]).favorited_at = None)
                     <=> (Unwrap(last.before).favorited_at = None)
               /\ [Unwrap(db_stories'[last.id]) EXCEPT !.favorited_at = None]
                     = [Unwrap(last.before) EXCEPT !.favorited_at = None]]_vars
    /\ [][(SecondToggle("toggle_comment_favorite") /\ db_comments[last.id] # None)
            => /\ (Unwrap(db_comments'[last.id]).favorited_at = None) <=> (last.reply # None)
               /\ [Unwrap(db_comments'[last.id]) EXCEPT !.favorited_at = None]
                     = [Unwrap(db_comments[last.id]) EXCEPT !.favorited_at = None]]_vars

\* a story that was a favorite since an earlier second was toggled twice and
\* is a favorite again, while a stored comment is a favorite too
C16_Witness ==
    /\ last.op = "toggle_story_favorite"
    /\ last.reply = Some(now)
    /\ now > 1
    /\ \E id \in StoryIds :
          /\ db_stories[id] # None
          /\ Unwrap(db_stories[id]).favorited_at = Some(1)
          /\ Unwrap(db_stories[id]).read_at # None
    /\ \E id \in CommentIds :
          db_comments[id] # None /\ Unwrap(db_comments[id]).favorited_at # None

\* C17: mark_story_read on a stored story sets read_at to the current time
\* when read_at is null and changes nothing otherwise, and no step changes
\* a read_at that is set: read_at stays the time of the first call.
C17_FirstOpenWins ==
    [][\A id \in StoryIds : db_stories[id] # None =>
          LET row == Unwrap(db_stories[id])
          IN  /\ (last'.op = "mark_story_read" /\ last'.id = id /\ last' # last)
                    => db_stories'[id] =
                          Some([row EXCEPT !.read_at = IF @ = None THEN Some(now) ELSE @])
              /\ row.read_at # None
                    => /\ db_stories'[id] # None
                       /\ Unwrap(db_stories'[id]).read_at = row.read_at]_vars

\* a story marked read at time 1 was marked again at time 2 and kept time 1
C17_Witness ==
    /\ last.op = "mark_story_read"
    /\ now = 2
    /\ last.before # None
    /\ Unwrap(last.before).read_at = Some(1)
    /\ Unwrap(db_stories[last.id]).read_at = Some(1)
    /\ Unwrap(db_stories[last.id]).fetched_at = 1

----------------------------------------------------------------------------
(* Claims about the storage worker *)

\* the number of commands of a sequence that toggle story id
ToggleCount(cmds, id) == Cardinality({i \in 1..Len(cmds) : cmds[i].id = id})

\* the commands finished, then the ones in hand, then the ones in the
\* channel are the commands sent, in the order they were sent
InOrderSent ==
    \E in_hand \in {<<>>} \cup {<<worker[w].cmd>> : w \in {v \in Workers : worker[v].pc # "recv"}} :
        worked \o in_hand \o cmd_queue = sent

\* a caller has one reply once its command is finished and none before
OneReplyEach ==
    \A c \in Callers :
        Len(replies[c]) = Cardinality({i \in 1..Len(worked) : worked[i].reply_to = c})

\* the favorite state of every story is flipped once per finished toggle
NoLostUpdate ==
    \A id \in StoryIds :
        (Unwrap(db_stories[id]).favorited_at # None) <=> (ToggleCount(worked, id) % 2 = 1)

\* C19: the worker has at most one command in hand, commands are finished
\* in the order they entered the channel, every command sent gets exactly
\* one reply, and no update is lost: after N toggles of one story, sent by
\* concurrent tasks, its favorite state is flipped N mod 2 times.
C19_OneWorkerInOrder ==
    /\ [](/\ Cardinality({w \in Workers : worker[w].pc # "recv"}) <= 1
          /\ InOrderSent
          /\ OneReplyEach
          /\ NoLostUpdate)
    /\ \A c \in Callers :
          (\E i \in 1..Len(sent) : sent[i].reply_to = c) ~> (Len(replies[c]) = 1)

\* three tasks toggle story 1 at once: one has its reply, the worker is in
\* the middle of the second command and the third waits in the channel
C19_Witness ==
    /\ Len(sent) = 3
    /\ \A i \in 1..Len(sent) : sent[i].id = 1
    /\ Len(worked) = 1
    /\ Len(cmd_queue) = 1
    /\ \E w \in Workers : worker[w].pc = "update" /\ worker[w].existing # None
    /\ Len(replies[worked[1].reply_to]) = 1

----------------------------------------------------------------------------
(* Claims about the cache *)

\* 24 hours in seconds
DayInSeconds == 24 * 60 * 60

\* an entry fetched at fetched_at is less than 24 hours old
YoungerThanADay(fetched_at) == now - fetched_at < DayInSeconds

\* C18: get_fresh_story, get_fresh_comments and get_fresh_feed return the
\* stored entry exactly when now - fetched_at < 86 400 s; an entry that is
\* 24 hours old or older is no hit, while get_story, get_comments and
\* get_feed still return it.
C18_FreshIffUnderADay ==
    /\ \A id \in StoryIds :
          LET story == get_story(db_stories, id)
          IN  /\ story = db_stories[id]
              /\ get_fresh_story(db_stories, id, now) =
                    IF story # None /\ YoungerThanADay(Unwrap(story).fetched_at)
                    THEN story ELSE None
    /\ \A story_id \in StoryIds :
          /\ get_comments(db_comments, story_id) =
                {Unwrap(db_comments[id]) :
                    id \in {i \in CommentIds : db_comments[i] # None
                                                /\ Unwrap(db_comments[i]).story_id = story_id}}
          /\ \A rows \in Orders(get_comments(db_comments, story_id)) :
                get_fresh_comments(rows, now) =
                    IF rows # <<>> /\ YoungerThanADay(rows[1].fetched_at)
                    THEN Some([comments |-> rows, fetched_at |-> rows[1].fetched_at])
                    ELSE None
    /\ \A feed_type \in FeedTypes :
          LET cached == get_feed(db_feeds, feed_type)
          IN  /\ (db_feeds[feed_type] # None /\ Unwrap(db_feeds[feed_type]).ids # <<>>)
                    => (/\ cached # None
                        /\ Unwrap(cached).ids = Unwrap(db_feeds[feed_type]).ids
                        /\ Unwrap(cached).fetched_at = Unwrap(db_feeds[feed_type]).fetched_at)
              /\ get_fresh_feed(db_feeds, feed_type, now) =
                    IF cached # None /\ YoungerThanADay(Unwrap(cached).fetched_at)
                    THEN cached ELSE None

\* a story, the comments of story 1 and the top feed are exactly 24 hours
\* old: stored and no hit; another story is a second younger and a hit
C18_Witness ==
    /\ \E id \in StoryIds :
          /\ db_stories[id] # None
          /\ now - Unwrap(db_stories[id]).fetched_at = DayInSeconds
          /\ get_story(db_stories, id) # None
          /\ get_fresh_story(db_stories, id, now) = None
    /\ \E id \in StoryIds :
          /\ db_stories[id] # None
          /\ now - Unwrap(db_stories[id]).fetched_at = DayInSeconds - 1
          /\ get_fresh_story(db_stories, id, now) # None
    /\ \E rows \in Orders(get_comments(db_comments, 1)) :
          /\ Len(rows) = 2
          /\ now - rows[1].fetched_at = DayInSeconds
          /\ get_fresh_comments(rows, now) = None
    /\ get_feed(db_feeds, "top") # None
    /\ now - Unwrap(get_feed(db_feeds, "top")).fetched_at = DayInSeconds
    /\ get_fresh_feed(db_feeds, "top", now) = None

----------------------------------------------------------------------------
(* Claims about the pages of a feed *)

\* C20: fetch_stories(feed, page, force_refresh) returns only stories whose
\* ids stand in the window ids[page*30 .. min((page+1)*30, n)) of the feed
\* id list of length n, in the order of their ids in that window, and
\* returns the empty list when page*30 >= n.
C20_PageWindowInOrder ==
    (last.op = "fetch_stories" /\ last.ok) =>
        /\ last.in_window
        /\ last.in_order
        /\ last.page * 30 >= last.len => last.returned = <<>>

\* page 1 of a list of 31 ids returned the story whose id is the 31st, from
\* the network
C20_Witness ==
    /\ last.op = "fetch_stories" /\ last.ok
    /\ last.page = 1
    /\ last.len = 31
    /\ Len(last.returned) = 1
    /\ last.written # {}

----------------------------------------------------------------------------
(* Claims about the write-through of the fetch tasks *)

\* every comment of a result is a row of the comments table with its fields
CommentsStored(comments) ==
    \A i \in 1..Len(comments) :
        /\ db_comments[comments[i].id] # None
        /\ comment_from_stored(Unwrap(db_comments[comments[i].id])) = comments[i]

\* C12: a successful result of a stories or comments task that was read from
\* the network has its items stored when it is sent, and a failed
\* write-through sends no successful result.
C12_WriteThroughBeforeResult ==
    /\ (last.op = "fetch_stories") =>
          /\ last.ok => last.stored
          /\ last.write_failed => ~last.ok
    /\ (last.op = "save_comments" /\ pc = "done" /\ source \in {"algolia", "firebase"}) =>
          /\ Unwrap(result).ok => CommentsStored(Unwrap(result).comments)
          /\ ~last.ok => ~Unwrap(result).ok

\* a comments task sent two comments read from the network after a stories
\* task had stored a second story
C12_Witness ==
    /\ last.op = "save_comments" /\ last.ok
    /\ pc = "done" /\ source \in {"algolia", "firebase"}
    /\ Unwrap(result).ok
    /\ Len(Unwrap(result).comments) >= 2
    /\ db_stories[1] # None /\ db_stories[2] # None

\* the error of a failed result is a storage error that came from a migration
FromMigration(e) ==
    \E se \in TaskStorageErrors : e = api_error_from_storage(se) /\ storage_is_fatal(se)

\* C13: a failed result that the controller accepts sets should_quit exactly
\* when its error is a storage error that came from a migration; every
\* other error is reported in error and leaves should_quit false.
C13_FatalIffMigration ==
    [][\A i \in 1..Len(tasks) :
          /\ \A outcome \in StoriesOutcomes(tasks[i]) :
                ((HandleStoriesResult(i, outcome) \/ HandleMoreStoriesResult(i, outcome))
                    /\ ~outcome.ok /\ ~is_stale(tasks[i]))
                => /\ error' = Some(user_message(outcome.err))
                   /\ should_quit' <=> FromMigration(outcome.err)
          /\ \A outcome \in CommentsOutcomes(tasks[i]) :
                (HandleCommentsResult(i, outcome) /\ ~outcome.ok /\ is_current(tasks[i]))
                => /\ error' = Some(user_message(outcome.err))
                   /\ should_quit' <=> FromMigration(outcome.err)]_vars

----------------------------------------------------------------------------
(* Claims about the prefetch *)

\* the next-page tasks in flight
MoreInFlight(queue) == {i \in 1..Len(queue) : queue[i].kind = "MoreStories"}

\* should_fill_viewport() on the controller's fields as they stand
ShouldFill ==
    should_fill_viewport(view, loading, loading_more, has_more, stories, viewport_height)

\* the fill has nothing to wait for and nothing more to ask for
FillBlocked ==
    \/ Len(stories) >= prefetch_target(viewport_height)
    \/ ~has_more
    \/ loading
    \/ loading_more

\* C14: should_fill_viewport() is false in every state where the stories
\* held have reached prefetch_target(), has_more is false, loading is set
\* or loading_more is set; and a step of the controller spawns the next-page
\* task of the fill only from fields for which none of these holds.
C14_PrefetchMonotone ==
    /\ [](FillBlocked => ~ShouldFill)
    /\ [][Cardinality(MoreInFlight(tasks')) > Cardinality(MoreInFlight(tasks))
            => /\ Len(stories') < prefetch_target(viewport_height')
               /\ has_more'
               /\ ~loading'
               /\ Cardinality(MoreInFlight(tasks')) = 1]_vars

\* the stories view holds stories, more may follow and nothing is in
\* flight: the target alone holds the fill back
C14_Witness ==
    /\ view.kind = "Stories"
    /\ stories # <<>>
    /\ Len(stories) >= prefetch_target(viewport_height)
    /\ has_more /\ ~loading /\ ~loading_more
    /\ tasks = <<>>
    /\ current_page > 0

\* the step before was a stories result, initial or page, taken over
Accepted ==
    /\ last.op \in {"handle_stories_result", "handle_more_stories_result"}
    /\ ~last.discarded
    /\ last.ok

\* the fill is over: the target is reached or no more stories follow, and no
\* load is in flight
FillDone ==
    /\ Len(stories) >= prefetch_target(viewport_height) \/ ~has_more
    /\ ~loading
    /\ ~loading_more
    /\ tasks = <<>>

\* a step that takes over a stories result after which should_fill_viewport()
\* is true spawns the next-page task in the same step
FillSpawnsAtOnce ==
    [][(Accepted' /\ last' # last
          /\ should_fill_viewport(view', loading', FALSE, has_more', stories',
                                  viewport_height'))
        => (loading_more' /\ MoreInFlight(tasks') # {})]_vars

\* C15: a stories result taken over spawns the next-page task at once when
\* should_fill_viewport() is true, and when every fetch succeeds and no
\* further message arrives the controller then reaches a state with the
\* target reached or has_more false and no load in flight.
C15_SelfPropagatingFill ==
    /\ FillSpawnsAtOnce
    /\ Accepted ~> FillDone

----------------------------------------------------------------------------
(* Claims about the comment tree *)

\* the list is a preorder walk: it starts at depth 0 and a comment is at
\* most one level deeper than the one before it
DfsOrdered(comments) ==
    /\ comments # <<>> => comments[1].depth = 0
    /\ \A i \in 2..Len(comments) : comments[i].depth <= comments[i - 1].depth + 1

\* the indices of the ancestors of the comment at index i: the earlier
\* comments that are shallower than everything between them and i, i included
AncestorIndices(comments, i) ==
    {j \in 0..(i - 1) : \A k \in (j + 1)..i : comments[k + 1].depth > comments[j + 1].depth}

\* C5: visibility correctness: for a comment list in DFS order and any
\* expansion set, index i is in visible_indices() exactly when every ancestor
\* of comment i is expanded; depth-0 comments are always visible and the
\* indices come in increasing order.
C5_VisibleIffAncestorsExpanded ==
    DfsOrdered(tree_comments) =>
        LET visible == visible_indices(tree_comments, tree_expanded)
        IN  /\ \A i \in 0..(Len(tree_comments) - 1) :
                  (i \in Range(visible)) <=>
                      \A j \in AncestorIndices(tree_comments, i) :
                          tree_comments[j + 1].id \in tree_expanded
            /\ \A i \in 0..(Len(tree_comments) - 1) :
                  tree_comments[i + 1].depth = 0 => i \in Range(visible)
            /\ \A m, n \in 1..Len(visible) : m < n => visible[m] < visible[n]

\* a depth-2 comment is hidden under an expanded parent because its
\* grandparent is collapsed, while another nested comment is visible
C5_Witness ==
    /\ DfsOrdered(tree_comments)
    /\ \E i \in 0..(Len(tree_comments) - 1) :
          /\ tree_comments[i + 1].depth = 2
          /\ tree_comments[i].id \in tree_expanded
          /\ tree_comments[i].depth = 1
          /\ i \notin Range(visible_indices(tree_comments, tree_expanded))
    /\ tree_expanded # {}

----------------------------------------------------------------------------
(* Claims about the controller *)

\* C1: when the controller handles a Stories or MoreStories result whose
\* captured generation differs from the current generation, whether it
\* carries stories or an error, the step leaves stories, selected_index,
\* scroll_offset, current_page, has_more, loading, loading_more, error and
\* should_quit unchanged.
C1_StaleStoriesResultDiscarded ==
    [][\A i \in 1..Len(tasks) :
          \A outcome \in StoriesOutcomes(tasks[i]) :
              ((HandleStoriesResult(i, outcome) \/ HandleMoreStoriesResult(i, outcome))
                  /\ tasks[i].generation # generation)
              => UNCHANGED <<stories, selected_index, scroll_offset, current_page, has_more,
                             loading, loading_more, error, should_quit>>]_vars

\* a stale MoreStories result carrying an error was just discarded while a
\* newer load was under way, and a stale one carrying stories can be too
C1_Witness ==
    /\ last.op \in {"handle_stories_result", "handle_more_stories_result"}
    /\ last.discarded
    /\ ~last.ok
    /\ generation > 1
    /\ loading
    /\ error = None
    /\ ~should_quit

\* C2: a Comments result tagged with story S is applied only in the Comments
\* view of story S: handled in the Stories view or in the Comments view of
\* another story, it leaves the comment tree, the expansion set, the
\* selection, the loading flag and the error unchanged.
C2_CommentsResultOnlyForCurrentStory ==
    [][\A i \in 1..Len(tasks) :
          \A outcome \in CommentsOutcomes(tasks[i]) :
              (HandleCommentsResult(i, outcome)
                  /\ ~(view.kind = "Comments" /\ view.story_id = tasks[i].story_id))
              => UNCHANGED <<tree_comments, tree_expanded, selected_index, loading, error>>]_vars

\* a result with comments was just discarded in the Comments view of another
\* story, whose own fetch is still loading
C2_Witness ==
    /\ last.op = "handle_comments_result"
    /\ last.discarded
    /\ last.ok
    /\ view.kind = "Comments"
    /\ loading
    /\ tree_comments = <<>>

\* C3 as claimed: every Refresh message, in either view and on any feed, and
\* every message that changes the feed leaves generation strictly greater,
\* and no step decreases it.
C3_Original ==
    [][/\ (Refresh \/ feed' # feed) => generation' > generation
       /\ generation' >= generation]_vars

\* C3 amended: a Refresh handled in the Stories view on a feed other than
\* Favorites and every message that changes the feed leave generation
\* greater by one; a Refresh handled in the Comments view or on the Favorites
\* feed leaves it unchanged; no step decreases it.
C3_GenerationIncrements ==
    [][/\ ((Refresh /\ view.kind = "Stories" /\ feed # "Favorites") \/ feed' # feed)
              => generation' = generation + 1
       /\ (Refresh /\ (view.kind = "Comments" \/ feed = "Favorites"))
              => generation' = generation
       /\ generation' >= generation]_vars

\* the feed loaded at start has just been refreshed in the Stories view: the
\* refresh took generation from 1 to 2 and a forced fetch is under way
C3_Witness ==
    /\ last.op = "refresh"
    /\ generation = 2
    /\ feed = "Top"
    /\ view.kind = "Stories"
    /\ loading
    /\ \E i \in 1..Len(tasks) : tasks[i].kind # "Comments" /\ tasks[i].generation = 2

----------------------------------------------------------------------------
(***************************************************************************)
(* The comment list widget (widgets/comment_list.rs): the line offset that *)
(* centres the selected item.                                              *)
(***************************************************************************)

MaxItems == 3
MaxItemHeight == 2
MaxViewport == 4

\* usize::saturating_sub
saturating_sub(a, b) == IF a >= b THEN a - b ELSE 0

RECURSIVE SumFirst(_, _)
\* the sum of the first n heights
SumFirst(item_heights, n) ==
    IF n = 0 THEN 0 ELSE SumFirst(item_heights, n - 1) + item_heights[n]

\* calculate_centering_offset: cumulative, with cumulative[0] = 0 at index 1
cumulative_heights(item_heights) ==
    [i \in 1..(Len(item_heights) + 1) |-> SumFirst(item_heights, i - 1)]

\* the offset without the clamp to max_offset
calculate_centering_offset_unclamped(selected, item_heights, height) ==
    LET cumulative == cumulative_heights(item_heights)
        total_lines == cumulative[Len(cumulative)]
        selected_start == IF selected < Len(cumulative) THEN cumulative[selected + 1] ELSE 0
        selected_height == IF selected < Len(item_heights) THEN item_heights[selected + 1] ELSE 0
    IN  IF total_lines <= height THEN 0
        ELSE saturating_sub(selected_start + (selected_height \div 2), height \div 2)

\* calculate_centering_offset
calculate_centering_offset(selected, item_heights, height) ==
    LET cumulative == cumulative_heights(item_heights)
        total_lines == cumulative[Len(cumulative)]
        selected_start == IF selected < Len(cumulative) THEN cumulative[selected + 1] ELSE 0
        selected_height == IF selected < Len(item_heights) THEN item_heights[selected + 1] ELSE 0
        selected_center == selected_start + (selected_height \div 2)
        half_viewport == height \div 2
        ideal_offset == saturating_sub(selected_center, half_viewport)
        max_offset == saturating_sub(total_lines, height)
    IN  IF total_lines <= height THEN 0
        ELSE Min(ideal_offset, max_offset)

\* the heights of the items handed to the widget: comment_to_lines gives
\* every comment its meta line and its separator line at least
ItemHeights ==
    UNION {[1..n -> 1..MaxItemHeight] : n \in 0..MaxItems}

\* CommentList::render: the widget draws nothing into an empty area or
\* without items; otherwise it skips line_offset lines
render(item_heights, height, selected) ==
    IF height = 0 \/ item_heights = <<>>
    THEN [op |-> "render", drawn |-> FALSE, item_heights |-> item_heights,
          height |-> height, selected |-> selected, line_offset |-> 0]
    ELSE [op |-> "render", drawn |-> TRUE, item_heights |-> item_heights,
          height |-> height, selected |-> selected,
          line_offset |-> calculate_centering_offset(selected, item_heights, height)]

\* the frame drawn before: nothing before the first frame
Frame ==
    IF last = NoCommand THEN render(<<>>, 0, 0) ELSE last

\* a frame after the visible comments changed
RenderItems ==
    /\ \E item_heights \in ItemHeights :
          last' = render(item_heights, Frame.height, Frame.selected)
    /\ UNCHANGED <<db_stories, db_comments, now, worker_vars>>
    /\ UNCHANGED <<client_vars, tree_vars, app_vars>>

\* a frame after the terminal was resized
RenderResized ==
    /\ \E height \in 0..MaxViewport :
          last' = render(Frame.item_heights, height, Frame.selected)
    /\ UNCHANGED <<db_stories, db_comments, now, worker_vars>>
    /\ UNCHANGED <<client_vars, tree_vars, app_vars>>

\* a frame after the selection moved
RenderSelected ==
    /\ \E selected \in 0..(MaxItems + 1) :
          last' = render(Frame.item_heights, Frame.height, selected)
    /\ UNCHANGED <<db_stories, db_comments, now, worker_vars>>
    /\ UNCHANGED <<client_vars, tree_vars, app_vars>>

NextRender == RenderItems \/ RenderResized \/ RenderSelected

SpecRender == InitStories /\ [][NextRender]_vars

\* the rendered frame of the last step
Drawn == last.op = "render" /\ last.drawn

TotalLines == SumFirst(last.item_heights, Len(last.item_heights))

MaxOffset == IF TotalLines > last.height THEN TotalLines - last.height ELSE 0

SelectedExists == last.selected < Len(last.item_heights)

\* the line of the list on which the middle of the selected item lies
SelectedMiddle ==
    SumFirst(last.item_heights, last.selected)
        + (last.item_heights[last.selected + 1] \div 2)

Distance(a, b) == IF a >= b THEN a - b ELSE b - a

\* C21: the line offset o of a rendered frame satisfies
\* 0 <= o <= max(0, total_lines - viewport_height); o is 0 when all lines
\* fit; otherwise, for a selected item of the list, o is the value of that
\* range closest to (start of the item + height/2) - viewport_height/2, and
\* the item's middle line lies inside the viewport [o, o + viewport_height).
C21_CenteringOffset ==
    Drawn =>
        /\ 0 <= last.line_offset
        /\ last.line_offset <= MaxOffset
        /\ TotalLines <= last.height => last.line_offset = 0
        /\ (TotalLines > last.height /\ SelectedExists) =>
              LET target == SelectedMiddle - (last.height \div 2)
              IN  /\ \A o \in 0..MaxOffset :
                         Distance(last.line_offset, target) <= Distance(o, target)
                  /\ last.line_offset <= SelectedMiddle
                  /\ SelectedMiddle < last.line_offset + last.height

\* a frame that needs scrolling, with the last item selected: the ideal
\* offset lies beyond max_offset and the clamp decides
C21_Witness ==
    /\ Drawn
    /\ SelectedExists
    /\ TotalLines > last.height
    /\ last.selected = Len(last.item_heights) - 1
    /\ last.line_offset = MaxOffset
    /\ SelectedMiddle - (last.height \div 2) > MaxOffset

----------------------------------------------------------------------------
(* comment_tree.rs: the expansion set and the list *)

ListedIds == {tree_comments[i].id : i \in 1..Len(tree_comments)}

ExpandedListed == tree_expanded \subseteq ListedIds

\* a step of CommentTree::expand(id) with an id the list does not hold
ExpandsAbsentId ==
    /\ tree_comments' = tree_comments
    /\ \E id \in CommentIds \ ListedIds : tree_expanded' = tree_expanded \cup {id}

----------------------------------------------------------------------------
(***************************************************************************)
(* app.rs with api/client.rs: the pages of a feed.  Every stories task     *)
(* fetches the feed's id list anew and cuts its page out of it; the        *)
(* controller replaces its list with page 0 and appends the later pages.   *)
(***************************************************************************)

\* the task has run its fetch and its result waits in the result channel
HasOutcome(task) == "outcome" \in DOMAIN task

\* the page a stories task was spawned for: 0 for load_stories and refresh,
\* current_page + 1 for load_more (current_page cannot change while a
\* MoreStories task of the current generation is in flight)
PageOf(task) == IF task.kind = "MoreStories" THEN current_page + 1 ELSE 0

\* what the task sends for the return value r of client.fetch_stories
OutcomeOf(r) ==
    [ok |-> r.ok, page |-> StoryIdsOf(r.stories),
     err |-> IF r.ok THEN "none"
             ELSE IF r.write_failed THEN api_error_from_storage("Sqlite") ELSE "Network",
     favorited |-> [id \in {i \in StoryIds : r.tbl[i] # None} |->
                       Unwrap(r.tbl[id]).favorited_at]]

WithOutcome(task, outcome) ==
    [kind |-> task.kind, generation |-> task.generation, story_id |-> task.story_id,
     local |-> task.local, outcome |-> outcome]

\* spawn_stories_fetch: the spawned task runs client.fetch_stories(feed, page,
\* force_refresh) on the id list upstream serves at that moment; load_more
\* never forces
RunStoriesTask ==
    /\ \E i \in 1..Len(tasks) :
          /\ tasks[i].kind \in {"Stories", "MoreStories"}
          /\ ~HasOutcome(tasks[i])
          /\ \/ /\ db_stories' = db_stories
                /\ tasks' = [tasks EXCEPT ![i] =
                                WithOutcome(tasks[i], [ok |-> FALSE, page |-> <<>>,
                                                       err |-> "Network"])]
             \/ \E force_refresh \in IF tasks[i].kind = "MoreStories" THEN {FALSE} ELSE BOOLEAN,
                   st \in [StoryIds -> StoryStatuses], fail_at \in 0..NumStories :
                   LET r == fetch_stories(db_stories, upstream, PageOf(tasks[i]),
                                          force_refresh, st, now, fail_at)
                   IN  /\ db_stories' = r.tbl
                       /\ tasks' = [tasks EXCEPT ![i] = WithOutcome(tasks[i], OutcomeOf(r))]
    /\ last' = NoCommand
    /\ UNCHANGED <<db_comments, now, worker_vars, upstream>>
    /\ UNCHANGED <<fetch_story, pc, to_fetch, fetch_items, fetch_attempted, fresh, source,
                   result>>
    /\ UNCHANGED <<tree_vars, view, feed, stories, selected_index, scroll_offset, loading,
                   loading_more, current_page, has_more, error, should_quit, generation,
                   viewport_height>>

\* main: result_rx.recv() hands the task's result to handle_async_result
DeliverStories ==
    \E i \in 1..Len(tasks) :
        /\ HasOutcome(tasks[i])
        /\ \/ HandleStoriesResult(i, tasks[i].outcome)
           \/ HandleMoreStoriesResult(i, tasks[i].outcome)

\* the id lists of a feed that has a full first page
PagedFeedLists == {ids \in FeedLists : Len(ids) >= PAGE_SIZE}

\* the ranking of the feed changes upstream
RankingChanges ==
    /\ \E ids \in PagedFeedLists : ids # upstream /\ upstream' = ids
    /\ UNCHANGED <<storage_vars, tree_vars, app_vars>>
    /\ UNCHANGED <<fetch_story, pc, to_fetch, fetch_items, fetch_attempted, fresh, source,
                   result>>

InitPaging ==
    /\ upstream \in PagedFeedLists
    /\ fetch_story = [id |-> 1, kids |-> <<>>]
    /\ pc = "idle"
    /\ to_fetch = <<>>
    /\ fetch_items = <<>>
    /\ fetch_attempted = {}
    /\ fresh = <<>>
    /\ source = "none"
    /\ result = None
    /\ db_stories = EmptyStories
    /\ db_comments = EmptyComments
    /\ now = 1
    /\ WorkerIdle
    /\ last = NoCommand
    /\ TreeIdle
    /\ AppNew

NextPaging ==
    Start \/ UpdateViewportHeight \/ Refresh \/ RunStoriesTask \/ DeliverStories
        \/ RankingChanges

SpecPaging == InitPaging /\ [][NextPaging]_vars

\* C23: App.stories never contains two stories with the same id, after any
\* sequence of initial loads, refreshes and appended pages, also when the
\* upstream ranking changes between the id fetches of two pages.
C23_StoryIdsUnique ==
    \A i, j \in 1..Len(stories) : i # j => stories[i].id # stories[j].id


----------------------------------------------------------------------------
(* app.rs: the way into the comments of a story and back *)

\* C24: Back from the Comments view returns to the Stories view with
\* selected_index and scroll_offset equal to the values they had when
\* OpenComments was issued, whatever the comment selection was in between,
\* and leaves the comment tree and its expansion set empty.  In steps: the
\* step into the Comments view stores the two values in the view, no step
\* within the Comments view changes what the view stores, and Back restores
\* the stored values and clears the tree.
C24_BackRestoresSelection ==
    [][/\ (view.kind = "Stories" /\ view'.kind = "Comments")
              => /\ view'.story_index = selected_index
                 /\ view'.story_scroll = scroll_offset
       /\ (view.kind = "Comments" /\ view'.kind = "Comments") => view' = view
       /\ (Back /\ view.kind = "Comments")
              => /\ view' = StoriesView
                 /\ selected_index' = view.story_index
                 /\ scroll_offset' = view.story_scroll
                 /\ tree_comments' = <<>>
                 /\ tree_expanded' = {}]_vars

\* Back has just left the comments of the second story of the list: the
\* selection is on that story again and the tree is empty
C24_Witness ==
    /\ last.op = "back"
    /\ last.from = "Comments"
    /\ view = StoriesView
    /\ selected_index = 1
    /\ Len(stories) = 2
    /\ tree_comments = <<>>
    /\ tree_expanded = {}

----------------------------------------------------------------------------
(* app.rs: the loading flags and the tasks in flight *)

\* C25: the loading flag does not outlive the work that set it: once the
\* result of every in-flight task has been handled (accepted or discarded),
\* loading is false.
C25_LoadingEndsWithWork == tasks = <<>> => ~loading


\* C26: loading_more is true only while a MoreStories task is in flight:
\* once the results of all tasks have been handled, also those of a Refresh
\* and of the next-page load it overtook, loading_more is false again and
\* load_more is not disabled.
C26_LoadingMoreEndsWithWork == tasks = <<>> => ~loading_more

----------------------------------------------------------------------------
(***************************************************************************)
(* app.rs: a comments load and a forced refresh of the same story, both in *)
(* flight.  The tasks run fetch_comments_flat in the order they were       *)
(* spawned; their results reach the controller in either order.            *)
(***************************************************************************)

\* the comments tasks that have not run their fetch yet
WaitingComments ==
    {i \in 1..Len(tasks) : tasks[i].kind = "Comments" /\ ~HasOutcome(tasks[i])}

\* spawn_comments_fetch: the spawned task runs client.fetch_comments_flat(
\* &story, force_refresh); the return value of a forced call is kept in result
RunCommentsTask ==
    /\ WaitingComments # {}
    /\ LET i == CHOOSE w \in WaitingComments : \A v \in WaitingComments : w <= v
       IN  \E outcome \in CommentsOutcomes(tasks[i]) :
               /\ tasks' = [tasks EXCEPT ![i] =
                               [kind |-> "Comments", generation |-> 0,
                                story_id |-> tasks[i].story_id, local |-> FALSE,
                                force |-> tasks[i].force, outcome |-> outcome]]
               /\ result' = IF tasks[i].force
                            THEN Some([ok |-> outcome.ok, comments |-> outcome.comments,
                                       story_id |-> tasks[i].story_id])
                            ELSE result
    /\ last' = NoCommand
    /\ UNCHANGED <<db_stories, db_comments, now, worker_vars>>
    /\ UNCHANGED <<upstream, fetch_story, pc, to_fetch, fetch_items, fetch_attempted, fresh,
                   source>>
    /\ UNCHANGED <<tree_vars, view, feed, stories, selected_index, scroll_offset, loading,
                   loading_more, current_page, has_more, error, should_quit, generation,
                   viewport_height>>

\* main: result_rx.recv() hands a comments result to handle_async_result
DeliverComments ==
    \E i \in 1..Len(tasks) :
        /\ tasks[i].kind = "Comments"
        /\ HasOutcome(tasks[i])
        /\ HandleCommentsResult(i, tasks[i].outcome)

\* main: result_rx.recv() hands a stories result to handle_async_result
ReceiveStories ==
    \E i \in 1..Len(tasks) :
        \/ \E outcome \in StoriesOutcomes(tasks[i]) : HandleStoriesResult(i, outcome)
        \/ \E outcome \in StoriesOutcomes(tasks[i]) : HandleMoreStoriesResult(i, outcome)

\* update(Message::Refresh) in the Comments view while no refresh is in flight
RefreshComments ==
    /\ view.kind = "Comments"
    /\ \A i \in 1..Len(tasks) : tasks[i].kind = "Comments" => ~tasks[i].force
    /\ Refresh

NextReload ==
    Start \/ UpdateViewportHeight \/ ReceiveStories \/ OpenComments \/ RefreshComments
        \/ RunCommentsTask \/ DeliverComments

SpecReload == InitApp /\ [][NextReload]_vars

\* no comments task is in flight
CommentsSettled == \A i \in 1..Len(tasks) : tasks[i].kind # "Comments"

\* C27: when a forced comments Refresh for story S was started while an
\* earlier comments load for S was in flight, then once both results have
\* been handled the comment tree holds the comments the Refresh returned,
\* whichever of the two results arrived first.
C27_RefreshWins ==
    (/\ view.kind = "Comments"
     /\ CommentsSettled
     /\ result # None
     /\ Unwrap(result).ok)
        => tree_comments = Unwrap(result).comments

----------------------------------------------------------------------------
(***************************************************************************)
(* app.rs with comment_tree.rs: the messages that act on the comment tree, *)
(* over the threads the client returns.                                    *)
(***************************************************************************)

\* the id of a reply that the thread does not list
DroppedId == NumComments + 1

\* the thread with a dropped reply in front of the kids of the comments at
\* the indices of dropped
WithDropped(comments, dropped) ==
    [i \in 1..Len(comments) |->
        [id |-> comments[i].id, depth |-> comments[i].depth,
         kids |-> IF i \in dropped THEN <<DroppedId>> \o comments[i].kids
                  ELSE comments[i].kids]]

\* the comment lists fetch_comments_flat returns: preorder walks; kids holds
\* the ids of the replies listed and, for some comments, that of a reply the
\* list leaves out (flatten_algolia_tree skips a child without text while
\* algolia_to_comment takes kids from every child)
ClientThreads ==
    UNION {{WithDropped(comments, dropped) : dropped \in SUBSET (1..Len(comments))} :
              comments \in {c \in TreeLists : DfsOrdered(c)}}

\* main: result_rx.recv() hands the first page of the feed to
\* handle_async_result
ReceiveFrontPage ==
    \E i \in 1..Len(tasks) :
        HandleStoriesResult(i, [ok |-> TRUE, page |-> <<1, 2>>, err |-> "none"])

\* main: result_rx.recv() hands the comments of the story to
\* handle_async_result
ReceiveThread ==
    \E i \in 1..Len(tasks) :
        /\ tasks[i].kind = "Comments"
        /\ \E comments \in ClientThreads :
              HandleCommentsResult(i, [ok |-> TRUE, comments |-> comments, err |-> "none"])

\* update(msg) for a message that acts on the comment tree; last keeps the
\* message and the state it was handled in
TreeMessage(op, after) ==
    /\ comment_message(after)
    /\ last' = [op |-> op, view |-> view.kind, selected_index |-> selected_index,
                comments |-> tree_comments, expanded |-> tree_expanded]

OnExpandComment == TreeMessage("expand_comment", expand_comment)

OnCollapseComment == TreeMessage("collapse_comment", collapse_comment)

OnGoToParent == TreeMessage("go_to_parent", go_to_parent)

OnExpandSubtree == TreeMessage("expand_subtree", app_expand_subtree)

OnCollapseSubtree == TreeMessage("collapse_subtree", app_collapse_subtree)

OnExpandThread == TreeMessage("expand_thread", expand_thread)

OnCollapseThread == TreeMessage("collapse_thread", collapse_thread)

NextThread ==
    \/ Start \/ UpdateViewportHeight \/ ReceiveFrontPage \/ OpenComments \/ ReceiveThread
    \/ SelectNext \/ SelectPrev
    \/ OnExpandComment \/ OnCollapseComment \/ OnGoToParent \/ OnExpandSubtree
    \/ OnCollapseSubtree \/ OnExpandThread \/ OnCollapseThread

SpecThread == InitApp /\ [][NextThread]_vars


\* the visible indices when the message of last was handled
VisibleBefore == visible_indices(last.comments, last.expanded)

\* a comment was selected when the message of last was handled
SelectedBefore ==
    /\ last.view = "Comments"
    /\ last.selected_index < Len(VisibleBefore)

\* its index in the list, and the comment
ActualBefore == VisibleBefore[last.selected_index + 1]

CommentBefore == last.comments[ActualBefore + 1]

\* the message of last changed nothing
NothingChanged ==
    /\ view.kind = last.view
    /\ selected_index = last.selected_index
    /\ tree_comments = last.comments
    /\ tree_expanded = last.expanded

\* the comment now selected is a visible reply to the comment selected before:
\* one level deeper, with that comment as its nearest shallower predecessor
ChildOfBeforeSelected ==
    LET visible == visible_indices(tree_comments, tree_expanded)
    IN  /\ selected_index < Len(visible)
        /\ LET actual == visible[selected_index + 1]
           IN  /\ tree_comments[actual + 1].depth = CommentBefore.depth + 1
               /\ ActualBefore \in AncestorIndices(tree_comments, actual)
               /\ \A j \in AncestorIndices(tree_comments, actual) : j <= ActualBefore

\* C28: ExpandComment on a selected comment whose kids list is non-empty: if
\* the comment is not expanded it becomes expanded and the selection does not
\* move; if it is already expanded the selection moves to its first child, a
\* visible comment one level deeper whose parent is the comment selected
\* before.  On a comment with empty kids nothing changes.
C28_ExpandComment ==
    (last.op = "expand_comment" /\ SelectedBefore) =>
        IF CommentBefore.kids = <<>> THEN NothingChanged
        ELSE IF CommentBefore.id \notin last.expanded
        THEN /\ tree_expanded = last.expanded \cup {CommentBefore.id}
             /\ selected_index = last.selected_index
             /\ tree_comments = last.comments
             /\ view.kind = "Comments"
        ELSE /\ tree_expanded = last.expanded
             /\ tree_comments = last.comments
             /\ view.kind = "Comments"
             /\ ChildOfBeforeSelected


\* the comment now selected, as a set: empty when the selection is beyond the
\* visible comments
SelectedNow ==
    LET visible == visible_indices(tree_comments, tree_expanded)
    IN  IF selected_index < Len(visible) THEN {visible[selected_index + 1]} ELSE {}

\* the comment now selected names the comment selected before among its kids
ParentOfBeforeSelected ==
    \E actual \in SelectedNow : CommentBefore.id \in Range(tree_comments[actual + 1].kids)

RootBefore ==
    {j \in AncestorIndices(last.comments, ActualBefore) \cup {ActualBefore} :
        last.comments[j + 1].depth = 0}

\* the ids of the thread below and including the list index root
SubtreeIds(comments, root) ==
    {comments[i + 1].id : i \in {j \in 0..(Len(comments) - 1) :
                                     j = root \/ root \in AncestorIndices(comments, j)}}

\* C30: CollapseSubtree on a selected comment: afterwards the selected comment
\* is its top-level ancestor, no comment of that ancestor's subtree is in the
\* expansion set, and the expansion of every comment outside the subtree is as
\* it was.
C30_CollapseSubtree ==
    (last.op = "collapse_subtree" /\ SelectedBefore) =>
        /\ view.kind = "Comments"
        /\ tree_comments = last.comments
        /\ \E root \in RootBefore :
              /\ SelectedNow = {root}
              /\ tree_expanded \cap SubtreeIds(tree_comments, root) = {}
              /\ tree_expanded \ SubtreeIds(tree_comments, root)
                    = last.expanded \ SubtreeIds(tree_comments, root)

\* CollapseSubtree was sent on a reply whose top-level ancestor's thread had
\* two expanded comments, beside another thread that stays expanded
C30_Witness ==
    /\ last.op = "collapse_subtree"
    /\ SelectedBefore
    /\ CommentBefore.depth > 0
    /\ Cardinality(last.expanded \ tree_expanded) >= 2
    /\ tree_expanded # {}
    /\ SelectedNow # {}
    /\ \A actual \in SelectedNow : tree_comments[actual + 1].depth = 0



\* C31: in the Comments view, whenever at least one comment is visible,
\* selected_index is a valid visible index: selected_index < visible_count.
C31_SelectionVisible ==
    (view.kind = "Comments" /\ visible_count(tree_comments, tree_expanded) > 0) =>
        selected_index < visible_count(tree_comments, tree_expanded)


\* a Stories or MoreStories result is handled
StoriesResultStep ==
    \E i \in 1..Len(tasks) : \E outcome \in StoriesOutcomes(tasks[i]) :
        HandleStoriesResult(i, outcome) \/ HandleMoreStoriesResult(i, outcome)

\* C32: while the view is Comments, handling a Stories or MoreStories result
\* leaves selected_index and scroll_offset as they were, and a later Back
\* selects the story whose comments were opened.
C32_StoriesResultKeepsSelection ==
    [][/\ (view.kind = "Comments" /\ StoriesResultStep) =>
              /\ selected_index' = selected_index
              /\ scroll_offset' = scroll_offset
       /\ (view.kind = "Comments" /\ Back) =>
              /\ selected_index' < Len(stories')
              /\ stories'[selected_index' + 1].id = view.story_id]_vars


----------------------------------------------------------------------------
(* api/client.rs: fetch_comments_flat while the network is down *)

\* every item request fails
NetworkDown == \A id \in ThreadIds : upstream[id].status = "missing"

\* the network goes down between two fetches: from now on every request fails
Outage ==
    /\ pc = "done"
    /\ ~NetworkDown
    /\ upstream' = [id \in ThreadIds |-> [upstream[id] EXCEPT !.status = "missing"]]
    /\ UNCHANGED <<fetch_story, pc, to_fetch, fetch_items, fetch_attempted, fresh, source, result>>
    /\ UNCHANGED <<storage_vars, tree_vars, app_vars>>

NextOutage ==
    FetchCommentsFlat \/ AlgoliaOk \/ AlgoliaFails \/ CrawlWave \/ WriteThrough \/ Outage

SpecOutage == InitClient /\ [][NextOutage]_vars

\* C33: a comments fetch in which the primary endpoint fails and every
\* per-item request of the fallback fails leaves the comments stored for the
\* story as they were.
C33_FailedFetchKeepsStored ==
    [][(WriteThrough /\ source = "firebase" /\ fetch_story.kids # <<>> /\ NetworkDown)
          => db_comments' = db_comments]_vars


\* every comment below the top level is named in the kids of the nearest
\* comment before it that is one level up
ListedUnderParent(comments) ==
    \A i \in 1..Len(comments) :
        comments[i].depth > 0 =>
            LET above == {j \in 1..(i - 1) : comments[j].depth = comments[i].depth - 1}
            IN  /\ above # {}
                /\ LET j == CHOOSE a \in above : \A b \in above : b <= a
                   IN  comments[i].id \in Range(comments[j].kids)

\* C34: in every comment list fetch_comments_firebase gets from
\* build_comment_tree, whatever items were dropped at conversion, the depths are
\* those of a preorder walk: the first comment has depth 0, each comment's
\* depth is at most its predecessor's depth + 1, and every comment at depth
\* d > 0 is listed in the kids of the nearest preceding comment at depth d - 1.
C34_PreorderDepths ==
    (pc \in {"save", "done"} /\ source = "firebase") =>
        /\ DfsOrdered(fresh)
        /\ ListedUnderParent(fresh)


----------------------------------------------------------------------------
(* api/client.rs: flatten_algolia_tree on trees with nodes of every kind *)

\* what the batch endpoint serves for a node: a comment with text, a comment
\* without text, or a node of another type
NodeKinds == {"ok", "textless", "other"}

InitFlatten ==
    /\ \E p \in ParentMaps, descending \in BOOLEAN, st \in [ThreadIds -> NodeKinds] :
          /\ upstream = [id \in ThreadIds |->
                            [status |-> st[id], kids |-> RankedKids(p, id, descending)]]
          /\ fetch_story = [id |-> 1, kids |-> RankedKids(p, 0, descending)]
    /\ db_stories = EmptyStories
    /\ db_comments = EmptyComments
    /\ now = 1
    /\ WorkerIdle
    /\ last = NoCommand
    /\ pc = "primary"
    /\ to_fetch = <<>>
    /\ fetch_items = <<>>
    /\ fetch_attempted = {}
    /\ fresh = <<>>
    /\ source = "none"
    /\ result = None
    /\ TreeIdle
    /\ AppNew

SpecFlatten == InitFlatten /\ [][AlgoliaOk]_vars

\* the node a node hangs under: 0 is the story
ParentNode(id) ==
    IF \E q \in ThreadIds : id \in Range(upstream[q].kids)
    THEN CHOOSE q \in ThreadIds : id \in Range(upstream[q].kids)
    ELSE 0

RECURSIVE NestingLevel(_)
\* the number of nodes between a node and the story
NestingLevel(id) == IF ParentNode(id) = 0 THEN 0 ELSE 1 + NestingLevel(ParentNode(id))

RECURSIVE Emitted(_)
\* a comment with text all of whose ancestors below the story are emitted
Emitted(id) ==
    /\ upstream[id].status = "ok"
    /\ ParentNode(id) # 0 => Emitted(ParentNode(id))

\* the emitted ones among ids, in their order
EmittedOf(ids) == SelectSeq(ids, LAMBDA id : Emitted(id))

\* C35: flatten_algolia_tree emits, in preorder and with depth equal to the
\* nesting level below the story, exactly the nodes whose type is "comment",
\* whose text is present and all of whose ancestors below the story were
\* emitted; each emitted comment's kids are the ids of all its immediate
\* children in the tree, in order.
C35_FlattenAlgolia ==
    (pc = "save" /\ source = "algolia") =>
        LET ids == [i \in 1..Len(fresh) |-> fresh[i].id]
            depths == [i \in 1..Len(fresh) |-> fresh[i].depth]
        IN  /\ Range(ids) = {id \in ThreadIds : Emitted(id)}
            /\ Cardinality(Range(ids)) = Len(ids)
            /\ \A i \in 1..Len(fresh) :
                  /\ fresh[i].depth = NestingLevel(fresh[i].id)
                  /\ fresh[i].kids = upstream[fresh[i].id].kids
                  /\ ListedKids(depths, ids, i) = EmittedOf(upstream[fresh[i].id].kids)
            /\ DfsOrdered(fresh)
            /\ SelectSeq(fresh, LAMBDA c : c.depth = 0)
                  = [i \in 1..Len(EmittedOf(fetch_story.kids)) |->
                        CHOOSE c \in Range(fresh) : c.id = EmittedOf(fetch_story.kids)[i]]

\* a tree was flattened in which a comment with text was left out together
\* with the node above it, beside a comment that was emitted
C35_Witness ==
    /\ pc = "save"
    /\ source = "algolia"
    /\ fresh # <<>>
    /\ \E id \in ThreadIds : upstream[id].status = "ok" /\ ~Emitted(id)


----------------------------------------------------------------------------
(* app.rs: favorites, toggled locally and persisted by a background task *)

\* spawn_toggle_story_favorite on the local list: the first story with the id
toggle_favorite_local(st, id, t) ==
    LET hits == {i \in 1..Len(st) : st[i].id = id}
    IN  IF hits = {} THEN st
        ELSE LET i == CHOOSE h \in hits : \A g \in hits : h <= g
             IN  [st EXCEPT ![i].favorited_at = IF @ # None THEN None ELSE Some(t)]

\* the task spawn_toggle_story_favorite spawns
ToggleTask(id) ==
    [kind |-> "ToggleStoryFavorite", generation |-> 0, story_id |-> id, local |-> TRUE]

\* update(Message::ToggleFavorite) in the Stories view
ToggleFavorite ==
    /\ Running
    /\ view.kind = "Stories"
    /\ error' = None
    /\ IF selected_index < Len(stories)
       THEN LET id == stories[selected_index + 1].id
            IN  /\ stories' = toggle_favorite_local(stories, id, now)
                /\ tasks' = Append(tasks, ToggleTask(id))
       ELSE UNCHANGED <<stories, tasks>>
    /\ last' = [op |-> "toggle_favorite"]
    /\ UNCHANGED <<view, feed, selected_index, scroll_offset, loading, loading_more,
                   current_page, has_more, should_quit, generation, viewport_height>>
    /\ UNCHANGED <<db_stories, db_comments, now, worker_vars, client_vars, tree_vars>>
    /\ Bounded

\* the spawned task runs storage.toggle_story_favorite(id) and drops the reply
RunToggleTask ==
    /\ \E i \in 1..Len(tasks) :
          /\ tasks[i].kind = "ToggleStoryFavorite"
          /\ db_stories' = toggle_favorite(db_stories, tasks[i].story_id, now).tbl
          /\ tasks' = RemoveAt(tasks, i)
    /\ last' = [op |-> "toggle_story_favorite"]
    /\ UNCHANGED <<db_comments, now, worker_vars, client_vars, tree_vars>>
    /\ UNCHANGED <<view, feed, stories, selected_index, scroll_offset, loading, loading_more,
                   current_page, has_more, error, should_quit, generation, viewport_height>>

\* the feed lists the two stories; nothing is stored yet
InitOptimistic ==
    /\ upstream = [i \in 1..NumStories |-> i]
    /\ fetch_story = [id |-> 1, kids |-> <<>>]
    /\ pc = "idle"
    /\ to_fetch = <<>>
    /\ fetch_items = <<>>
    /\ fetch_attempted = {}
    /\ fresh = <<>>
    /\ source = "none"
    /\ result = None
    /\ db_stories = EmptyStories
    /\ db_comments = EmptyComments
    /\ now = 1
    /\ WorkerIdle
    /\ last = NoCommand
    /\ TreeIdle
    /\ AppNew

NextOptimistic ==
    Start \/ UpdateViewportHeight \/ Refresh \/ RunStoriesTask \/ DeliverStories
        \/ SelectNext \/ ToggleFavorite \/ RunToggleTask

SpecOptimistic == InitOptimistic /\ [][NextOptimistic]_vars

\* the story is stored as a favorite
StoredFavorite(id) ==
    /\ id \in DOMAIN db_stories
    /\ db_stories[id] # None
    /\ Unwrap(db_stories[id]).favorited_at # None

\* C36: once every background persistence task and every fetch result has
\* been handled, for each story in App.stories the local favorited_at is
\* non-null if and only if the stored favorited_at is non-null.
C36_FavoritesConverge ==
    tasks = <<>> =>
        \A i \in 1..Len(stories) :
            stories[i].favorited_at # None <=> StoredFavorite(stories[i].id)


----------------------------------------------------------------------------
(* main.rs: the event loop's last iteration and the exit status *)

\* the tallest terminal
MaxHeight == 25

\* what terminal.size() may report
TerminalHeights == Heights \cup {MaxHeight}

\* the top of an iteration finds another height than the one last reported
Resize == update_viewport_height(TerminalHeights) /\ Bounded

\* run_tui: Ok(()) or bail!("{err}")
ExitStatus(err) ==
    IF err # None THEN [ok |-> FALSE, message |-> Unwrap(err)]
    ELSE [ok |-> TRUE, message |-> "none"]

\* the iteration that follows should_quit = true: the frame is drawn, a
\* changed height is reported through update(), the loop breaks and the
\* error that is left decides the exit status; pc = "exited" from then on
QuitIteration ==
    /\ should_quit
    /\ pc = "idle"
    /\ \E current_height \in TerminalHeights :
          IF viewport_height # Some(current_height)
          THEN LET grew == viewport_height = None \/ current_height > Unwrap(viewport_height)
                   more == IF grew /\ should_fill_viewport(view, loading, loading_more,
                                                           has_more, stories,
                                                           Some(current_height))
                           THEN load_more(loading_more, has_more, tasks, generation)
                           ELSE [loading_more |-> loading_more, tasks |-> tasks]
               IN  /\ error' = None
                   /\ viewport_height' = Some(current_height)
                   /\ loading_more' = more.loading_more
                   /\ tasks' = more.tasks
                   /\ result' = Some(ExitStatus(None))
          ELSE /\ result' = Some(ExitStatus(error))
               /\ UNCHANGED <<error, viewport_height, loading_more, tasks>>
    /\ pc' = "exited"
    /\ UNCHANGED <<view, feed, stories, selected_index, scroll_offset, loading, current_page,
                   has_more, should_quit, generation>>
    /\ UNCHANGED <<db_stories, db_comments, now, last, worker_vars, tree_vars>>
    /\ UNCHANGED <<upstream, fetch_story, to_fetch, fetch_items, fetch_attempted, fresh, source>>

NextLoop == Start \/ Resize \/ HandleAsyncResult \/ Refresh \/ Quit \/ QuitIteration

SpecLoop == InitApp /\ [][NextLoop]_vars

\* the message handled last was a result with a fatal error, which set the
\* error and should_quit
FatalResultLast ==
    /\ should_quit
    /\ last.op \in {"handle_stories_result", "handle_more_stories_result",
                    "handle_comments_result"}
    /\ ~last.ok
    /\ ~last.discarded

\* C37: if the event loop ends while the error is set, the process exits
\* non-zero with that message; after a fatal error result has set the error
\* and should_quit, the error is still set when the loop's exit check runs,
\* whatever else the same iteration processes, so the exit is non-zero.
C37_FatalErrorExitsNonZero ==
    /\ (pc = "exited" /\ error # None) => result = Some(ExitStatus(error))
    /\ FatalResultLast => error # None
    /\ (pc = "exited" /\ FatalResultLast) => ~Unwrap(result).ok


----------------------------------------------------------------------------
(* api/client.rs, storage/types.rs: the timestamps of a saved thread *)

\* a fetched comment
FetchedComment(id) ==
    [id |-> id, text |-> "plain", by |-> id, time |-> id, depth |-> 0, kids |-> <<>>,
     favorited_at |-> None]

\* the threads a fetch may return: distinct comments
FetchedThreads ==
    {[i \in 1..Len(ids) |-> FetchedComment(ids[i])] :
        ids \in {s \in Batches(CommentIds) : \A i, j \in 1..Len(s) : i # j => s[i] # s[j]}}

\* the readings of now_unix() by n successive calls that begin at time t
ClockReadings(n, t) ==
    {r \in [1..n -> t..MaxTime] :
        /\ n > 0 => r[1] = t
        /\ \A i \in 1..(n - 1) : r[i] <= r[i + 1]}

\* HnClient::save_comments: StorableComment::from_comment reads now_unix() for
\* each comment, at the times readings
client_save_comments_at(tbl, stories_tbl, story_id, comments, readings) ==
    save_comments(tbl, stories_tbl, story_id,
                  [i \in 1..Len(comments) |->
                      from_comment(comments[i], story_id,
                                   find_parent_id(comments, comments[i].id), readings[i])])

\* a fetch writes its thread through while the clock runs
SaveFetched ==
    /\ \E story_id \in StoryIds, comments \in FetchedThreads :
       \E readings \in ClockReadings(Len(comments), now) :
          LET r == client_save_comments_at(db_comments, db_stories, story_id, comments,
                                           readings)
          IN  /\ db_comments' = r.tbl
              /\ now' = IF comments = <<>> THEN now ELSE readings[Len(comments)]
              /\ last' = [op |-> "save_comments", story_id |-> story_id,
                          ids |-> SeqIds(comments), ok |-> r.ok]
    /\ UNCHANGED <<db_stories, worker_vars>>
    /\ UNCHANGED <<client_vars, tree_vars, app_vars>>

NextStamps == SaveFetched \/ ToggleCommentFavorite \/ Tick

SpecStamps == InitComments /\ [][NextStamps]_vars

\* C38: all comments stored for one story share one fetched_at value, after
\* any sequence of save_comments calls and favorite toggles, and
\* get_fresh_comments returns none when the story has no stored comments or
\* when that timestamp is stale.
C38_SharedFetchedAt ==
    \A story_id \in StoryIds :
        /\ \A a, b \in get_comments(db_comments, story_id) : a.fetched_at = b.fetched_at
        /\ \A rows \in Orders(get_comments(db_comments, story_id)) :
              (rows = <<>> \/ \A i \in 1..Len(rows) : ~is_fresh(rows[i].fetched_at, now))
                  => get_fresh_comments(rows, now) = None


----------------------------------------------------------------------------
(* api/client.rs: the fallback crawl over any kids lists *)

\* the kids of an upstream item: none, or one id of the thread, the item's
\* own or an earlier one included
ItemKids == {<<>>} \cup {<<k>> : k \in ThreadIds}

\* any items upstream, and a story whose kids may repeat an id
InitCrawl ==
    /\ \E st \in [ThreadIds -> {"missing", "gone", "ok"}], kids \in [ThreadIds -> ItemKids],
          root_kids \in Batches(ThreadIds) :
          /\ upstream = [id \in ThreadIds |-> [status |-> st[id], kids |-> kids[id]]]
          /\ fetch_story = [id |-> 1, kids |-> root_kids]
    /\ db_stories = [id \in StoryIds |->
                        IF id = 1 THEN Some(StorableStory(1, 1, 1, None, None)) ELSE None]
    /\ db_comments = EmptyComments
    /\ now = 1
    /\ WorkerIdle
    /\ last = NoCommand
    /\ pc = "primary"
    /\ to_fetch = <<>>
    /\ fetch_items = <<>>
    /\ fetch_attempted = {}
    /\ fresh = <<>>
    /\ source = "none"
    /\ result = None
    /\ TreeIdle
    /\ AppNew

NextCrawl == AlgoliaFails \/ CrawlWave

SpecCrawl == InitCrawl /\ [][NextCrawl]_vars

\* every request is answered or fails, and the task is polled again
SpecCrawlLive == SpecCrawl /\ WF_vars(AlgoliaFails) /\ WF_vars(CrawlWave)

\* C39: the fallback crawl terminates: whatever the kids lists upstream
\* contain, the fetch queue eventually becomes empty and
\* fetch_comments_firebase returns.
C39_CrawlTerminates == <>(pc = "save" /\ to_fetch = <<>>)


----------------------------------------------------------------------------
(* widgets/comment_list.rs: the lines of a rendered frame *)

\* the item (counted from 0) that holds line n of the list
ItemOfLine(item_heights, n) ==
    CHOOSE i \in 0..(Len(item_heights) - 1) :
        SumFirst(item_heights, i) <= n /\ n < SumFirst(item_heights, i + 1)

\* CommentList::render, the loop over the lines: the lines before line_offset
\* are skipped, and is_first_line_of_item is cleared by each of them; a line
\* is drawn on every row until y reaches inner.bottom()
render_lines(frame) ==
    LET total_lines == SumFirst(frame.item_heights, Len(frame.item_heights))
        rows == Min(frame.height, total_lines - frame.line_offset)
    IN  [y \in 1..rows |->
            LET current_line == frame.line_offset + y - 1
                item_idx == ItemOfLine(frame.item_heights, current_line)
                is_selected == frame.selected = item_idx
                is_first_line_of_item ==
                    current_line = SumFirst(frame.item_heights, item_idx)
            IN  [item_idx |-> item_idx,
                 highlight_style |-> is_selected,
                 highlight_symbol |-> is_selected /\ is_first_line_of_item]]

\* the rows of the frame that show the selected item
SelectedRows ==
    {y \in DOMAIN render_lines(last) : render_lines(last)[y].item_idx = last.selected}

\* C40: in a rendered frame every line of the selected item has the
\* highlight style and no other line has it, and the highlight symbol is
\* drawn exactly once, on the first visible line of the selected item, also
\* when the item's first lines lie above the viewport top.
C40_HighlightSymbol ==
    (Drawn /\ SelectedExists) =>
        LET lines == render_lines(last)
        IN  /\ SelectedRows # {}
            /\ \A y \in DOMAIN lines : lines[y].highlight_style <=> y \in SelectedRows
            /\ \A y \in DOMAIN lines :
                   lines[y].highlight_symbol <=>
                       (y \in SelectedRows /\ \A z \in SelectedRows : y <= z)

============================================================================
